---- MODULE Spec2Model ----
(***************************************************************************)
(* Macro-particle system of OmniGibson                                     *)
(* (omnigibson/systems/macro_particle_system.py): the particle registry    *)
(* MacroParticleSystem and the attachment-group layer VisualParticleSystem *)
(* of one concrete system class (DustSystem).                              *)
(*                                                                         *)
(* Python values are modelled as follows.                                  *)
(*  - An OrderedDict is a sequence of entries in insertion order; each     *)
(*    entry carries its key in the field "name".                           *)
(*  - A str that the code computes on (a particle name) is a sequence of   *)
(*    one-character strings; a str that is only compared is a TLA+ string. *)
(*  - A float is modelled by an integer standing for its value; the state  *)
(*    vector holds floats only.  Where the code tests the Python type of a *)
(*    number (max_particle_idn) the number is a record [t, v] of its type  *)
(*    ("int" or "float") and its value.                                    *)
(*  - None is <<>> where a sequence or an optional argument is expected.   *)
(*  - An exception is the field err of the system record, "none" when no   *)
(*    exception is pending; a pending exception makes every later call of  *)
(*    the same operation a no-op, so the changes made before the raise     *)
(*    stay, as in Python.                                                  *)
(***************************************************************************)
EXTENDS Integers, Sequences, FiniteSets, TLC

VARIABLES
    initialized,        \* initialize() has run: the class attributes are not None
    particles,          \* cls.particles
    max_particle_idn,   \* cls.max_particle_idn
    _group_particles,   \* cls._group_particles
    _group_objects,     \* cls._group_objects
    particle_object,    \* cls.particle_object, the template (<<>> for None)
    last,               \* the last call: its name, the exception it raised, what it returned
    assigned,           \* history: the identifiers given to particles since initialize()/reset()
    min_scale,          \* cls.min_scale (<<>> for None)
    max_scale,          \* cls.max_scale (<<>> for None)
    sampled,            \* the array the last call returned, if it was sample_scales
    class_attrs,        \* the attributes in the __dict__ of each class of the hierarchy
    created,            \* the class the last call of VisualParticleSystem.create returned
    physics,            \* the physics state: the heights of self.obj and of other
    saved_states        \* the snapshots the physics engine holds, each with its id

vars == <<initialized, particles, max_particle_idn, _group_particles, _group_objects,
          particle_object, last, assigned, min_scale, max_scale, sampled, class_attrs,
          created, physics, saved_states>>

----------------------------------------------------------------------------
\* Bounds of the model.

\* No call that adds particles is made when it could leave more than this many tracked.
MaxParticles == 2

\* No call that allocates identifiers is made once max_particle_idn has reached this.
MaxIdn == 2

\* Largest n_particles / candidate count passed to the group sampling calls.
MaxRequest == 2

\* Largest identifier whose name is formed and parsed back.
MaxNamedIdn == 25

\* The numbers np.random.uniform draws from [0, 1) are the multiples of 1/UniformSteps.
UniformSteps == 2

\* In the model of the class hierarchy no particle is added once max_particle_idn of
\* the class has reached this.
MaxClassIdn == 1

\* the largest dimension of a host bounding box, and the step between the dimensions
MaxHostDim == 120000

HostDimStep == 5000

\* the greatest height of an object, and the most snapshots the physics engine holds
MaxHeight == 2

MaxSaved == 2

\* for _ in range(10)
MaxAttempts == 10

----------------------------------------------------------------------------
\* Sequence helpers.

Range(s) == {s[i] : i \in DOMAIN s}

Last(s) == s[Len(s)]

RECURSIVE SumSeq(_)
SumSeq(s) == IF s = <<>> THEN 0 ELSE Head(s) + SumSeq(Tail(s))

RECURSIVE Flatten(_)
\* np.concatenate of a list of arrays
Flatten(ss) == IF ss = <<>> THEN <<>> ELSE Head(ss) \o Flatten(Tail(ss))

\* OrderedDict operations on a sequence of entries keyed by the field name.
DictKeys(d) == {d[i].name : i \in DOMAIN d}

DictKeyList(d) == [i \in DOMAIN d |-> d[i].name]

DictGet(d, k) == d[CHOOSE i \in DOMAIN d : d[i].name = k]

DictPop(d, k) == SelectSeq(d, LAMBDA e : e.name # k)

\* d[k] = e: an existing key keeps its place, a new key goes last
DictSet(d, e) ==
    IF e.name \in DictKeys(d)
    THEN [i \in DOMAIN d |-> IF d[i].name = e.name THEN e ELSE d[i]]
    ELSE Append(d, e)

----------------------------------------------------------------------------
\* Particle names.

\* cls.name of the concrete system
SystemName == <<"D", "u", "s", "t">>

particle_name_prefix == SystemName \o <<"P", "a", "r", "t", "i", "c", "l", "e">>

DigitChars == <<"0", "1", "2", "3", "4", "5", "6", "7", "8", "9">>

IsDigit(c) == \E d \in 1..10 : DigitChars[d] = c

DigitVal(c) == (CHOOSE d \in 1..10 : DigitChars[d] = c) - 1

RECURSIVE IntToStr(_)
\* str(n) of a Python int, as f"{n}" formats it
IntToStr(n) ==
    IF n < 0 THEN <<"-">> \o IntToStr(-n)
    ELSE IF n < 10 THEN <<DigitChars[n + 1]>>
    ELSE IntToStr(n \div 10) \o <<DigitChars[(n % 10) + 1]>>

\* whether int(s) accepts s: an optional sign, then one or more digits
IsIntLiteral(s) ==
    LET body == IF s # <<>> /\ Head(s) \in {"-", "+"} THEN Tail(s) ELSE s
    IN  body # <<>> /\ \A i \in DOMAIN body : IsDigit(body[i])

RECURSIVE DigitsToInt(_)
DigitsToInt(s) ==
    IF s = <<>> THEN 0 ELSE 10 * DigitsToInt(SubSeq(s, 1, Len(s) - 1)) + DigitVal(Last(s))

\* int(s) of a str that IsIntLiteral accepts
StrToInt(s) ==
    IF Head(s) = "-" THEN 0 - DigitsToInt(Tail(s))
    ELSE IF Head(s) = "+" THEN DigitsToInt(Tail(s))
    ELSE DigitsToInt(s)

\* the places where sub occurs in s
Occurrences(s, sub) ==
    {i \in 1..(Len(s) - Len(sub) + 1) : SubSeq(s, i, i + Len(sub) - 1) = sub}

\* sub in s
Contains(s, sub) == Occurrences(s, sub) # {}

\* s.split(sub)[-1]: what follows the last occurrence of sub, all of s when there is none
SplitLast(s, sub) ==
    IF Occurrences(s, sub) = {} THEN s
    ELSE LET k == CHOOSE i \in Occurrences(s, sub) : \A j \in Occurrences(s, sub) : j <= i
         IN  SubSeq(s, k + Len(sub), Len(s))

\* particle_idn2name(idn) for an int idn: f"{cls.particle_name_prefix}{idn}"
particle_idn2name(idn) == particle_name_prefix \o IntToStr(idn)

\* whether particle_name2idn(name) returns: the prefix assertion holds and int() parses
particle_name2idn_ok(name) ==
    Contains(name, particle_name_prefix) /\ IsIntLiteral(SplitLast(name, particle_name_prefix))

\* a particle_name2idn that reads the last character of the name only
particle_name2idn_last_digit(name) == DigitVal(Last(name))

\* particle_name2idn(name): int(name.split(cls.particle_name_prefix)[-1])
particle_name2idn(name) == StrToInt(SplitLast(name, particle_name_prefix))

----------------------------------------------------------------------------
\* The scene: the host objects particles are attached to.

Chair1 == [name |-> "chair1", uuid |-> 11, prim_path |-> <<"World", "chair1">>,
           links |-> <<"base_link", "seat">>, scale |-> <<1, 1, 1>>]

Table1 == [name |-> "table1", uuid |-> 12, prim_path |-> <<"World", "table1">>,
           links |-> <<"base_link">>, scale |-> <<1, 2, 4>>]

\* a second object named chair1, which the scene registry does not hold
Chair1Twin == [name |-> "chair1", uuid |-> 13, prim_path |-> <<"World", "chair1_twin">>,
               links |-> <<"base_link">>, scale |-> <<1, 1, 1>>]

\* the objects registered in the scene
SceneObjects == {Chair1, Table1}

\* the objects a caller creates attachment groups for
HostObjects == SceneObjects \cup {Chair1Twin}

GroupNames == {o.name : o \in SceneObjects} \cup {"nonexistent"}

\* scene.object_registry("uuid", u, None): <<obj>> when found, <<>> for None
object_registry_uuid(u) ==
    IF \E o \in SceneObjects : o.uuid = u
    THEN <<CHOOSE o \in SceneObjects : o.uuid = u>> ELSE <<>>

\* scene.object_registry("name", n): <<obj>> when found, <<>> for None
object_registry_name(n) ==
    IF \E o \in SceneObjects : o.name = n
    THEN <<CHOOSE o \in SceneObjects : o.name = n>> ELSE <<>>

\* obj.root_link.prim_path
RootLinkPath(obj) == Append(obj.prim_path, obj.links[1])

\* prim path under which a particle that belongs to no group is created
FreePath == <<"World", "Dust", "free">>

----------------------------------------------------------------------------
\* Poses and scales.  A pose is <<position (3), quaternion (4)>>.

PoseA == <<<<1, 2, 3>>, <<0, 0, 0, 1>>>>

PoseB == <<<<4, 5, 6>>, <<0, 1, 0, 0>>>>

ScaleA == <<1, 1, 1>>

ScaleB == <<2, 3, 4>>

\* the (pose, scale) pairs a caller places a particle with
Placements == {[pose |-> PoseA, scale |-> ScaleA], [pose |-> PoseB, scale |-> ScaleB]}

Mul3(a, b) == <<a[1] * b[1], a[2] * b[2], a[3] * b[3]>>

\* f"{particle_name}_template", the name cm_create_particle_template gives the template
TemplateName == SystemName \o <<"_", "t", "e", "m", "p", "l", "a", "t", "e">>

\* the template prim as initialize() loads it: identity local pose, unit scale
TemplatePrim == [pose |-> <<<<0, 0, 0>>, <<0, 0, 0, 1>>>>, scale |-> <<1, 1, 1>>]

\* cls.particle_object.aabb_extent
TemplateExtent == <<2, 2, 2>>

\* (T.quat2mat(q) @ z_up).flatten(): the z axis rotated by the quaternion q = (x, y, z, w)
Normal(q) ==
    <<2 * (q[1] * q[3] + q[4] * q[2]),
      2 * (q[2] * q[3] - q[4] * q[1]),
      1 - 2 * (q[1] * q[1] + q[2] * q[2])>>

----------------------------------------------------------------------------
\* The system as a record, threaded through the operations of one call.

St == [particles |-> particles,
       max_particle_idn |-> max_particle_idn,
       _group_particles |-> _group_particles,
       _group_objects |-> _group_objects,
       particle_object |-> particle_object,
       err |-> "none"]

Raise(S, e) == [S EXCEPT !.err = e]

Ok(S) == S.err = "none"

\* cls.n_particles
n_particles(S) == Len(S.particles)

\* cls.groups
groups(S) == DictKeys(S._group_particles)

\* an allocator that numbers a new particle by the count of tracked particles
get_next_particle_unique_idn_by_count(S) ==
    [t |-> S.max_particle_idn.t, v |-> n_particles(S)]

\* cls.get_next_particle_unique_idn(): the sum keeps the Python type of max_particle_idn
get_next_particle_unique_idn(S) ==
    [t |-> S.max_particle_idn.t, v |-> S.max_particle_idn.v + 1]

\* the name add_particle derives; idn is <<>> for None, <<i>> for an explicit int
DerivedIdn(S, idn) ==
    IF idn = <<>> THEN get_next_particle_unique_idn(S) ELSE [t |-> "int", v |-> idn[1]]

\* an add_particle that advances max_particle_idn before it checks the name
add_particle_counts_first(S, prim_path, idn, placement) ==
    IF ~Ok(S) THEN S
    ELSE LET i == DerivedIdn(S, idn)
             C == [S EXCEPT !.max_particle_idn = [@ EXCEPT !.v = @ + 1]]
         IN  IF i.t # "int" THEN Raise(C, "AssertionError")
             ELSE LET name == particle_idn2name(i.v) IN
                  IF name \in DictKeys(S.particles) THEN Raise(C, "AssertionError")
                  ELSE LET new_particle ==
                               [name |-> name,
                                prim_path |-> Append(prim_path, name),
                                pose |-> IF placement = <<>> THEN S.particle_object[1].pose
                                         ELSE placement[1].pose,
                                scale |-> IF placement = <<>> THEN S.particle_object[1].scale
                                          ELSE Mul3(S.particle_object[1].scale,
                                                    placement[1].scale)]
                       IN  [C EXCEPT !.particles = DictSet(@, new_particle)]

\* MacroParticleSystem.add_particle.  placement is <<>> when scale, position and
\* orientation are None: the copy then keeps the template's pose, and its scale is
\* multiplied by a draw from [min_scale, max_scale] = [1, 1].
add_particle(S, prim_path, idn, placement) ==
    IF ~Ok(S) THEN S
    ELSE LET i == DerivedIdn(S, idn) IN
         \* particle_idn2name: assert isinstance(idn, int)
         IF i.t # "int" THEN Raise(S, "AssertionError")
         ELSE LET name == particle_idn2name(i.v) IN
              \* assert name not in cls.particles.keys()
              IF name \in DictKeys(S.particles) THEN Raise(S, "AssertionError")
              ELSE LET new_particle ==
                           [name |-> name,
                            prim_path |-> Append(prim_path, name),
                            pose |-> IF placement = <<>> THEN S.particle_object[1].pose
                                     ELSE placement[1].pose,
                            scale |-> IF placement = <<>> THEN S.particle_object[1].scale
                                      ELSE Mul3(S.particle_object[1].scale, placement[1].scale)]
                   IN  [S EXCEPT !.particles = DictSet(@, new_particle),
                                 !.max_particle_idn = [@ EXCEPT !.v = @ + 1]]

\* a remove_particle that pops the name without asserting that it is tracked
base_remove_particle_silent(S, name) ==
    IF ~Ok(S) THEN S ELSE [S EXCEPT !.particles = DictPop(@, name)]

\* MacroParticleSystem.remove_particle
base_remove_particle(S, name) ==
    IF ~Ok(S) THEN S
    ELSE IF name \notin DictKeys(S.particles) THEN Raise(S, "AssertionError")
    ELSE [S EXCEPT !.particles = DictPop(@, name)]

\* the first group, in dict order, that holds the particle name (0 when none does)
FirstGroupWith(gp, name) ==
    IF \E i \in DOMAIN gp : name \in Range(gp[i].parts)
    THEN CHOOSE i \in DOMAIN gp : /\ name \in Range(gp[i].parts)
                                  /\ \A j \in 1..(i - 1) : name \notin Range(gp[j].parts)
    ELSE 0

\* VisualParticleSystem.remove_particle
remove_particle(S, name) ==
    LET R == base_remove_particle(S, name)
        g == FirstGroupWith(R._group_particles, name)
    IN  IF ~Ok(R) \/ g = 0 THEN R
        ELSE [R EXCEPT !._group_particles[g].parts = SelectSeq(@, LAMBDA p : p # name)]

RECURSIVE remove_each(_, _)
\* for particle_name in names: cls.remove_particle(name=particle_name)
remove_each(S, names) ==
    IF names = <<>> \/ ~Ok(S) THEN S
    ELSE remove_each(remove_particle(S, Head(names)), Tail(names))

\* MacroParticleSystem.remove_all_particles, which VisualParticleSystem only forwards to
remove_all_particles(S) == remove_each(S, DictKeyList(S.particles))

\* MacroParticleSystem.reset
reset(S) ==
    LET R == remove_all_particles(S)
    IN  IF ~Ok(R) THEN R ELSE [R EXCEPT !.max_particle_idn = [t |-> "int", v |-> -1]]

----------------------------------------------------------------------------
\* The attachment-group layer.

\* VisualParticleSystem._validate_group: raises ValueError when the group does not exist
_validate_group(S, group) ==
    IF ~Ok(S) THEN S
    ELSE IF group \notin groups(S) THEN Raise(S, "ValueError") ELSE S

\* a remove_all_group_particles that removes every tracked particle
remove_all_group_particles_all(S, group) ==
    LET R == _validate_group(S, group)
    IN  IF ~Ok(R) THEN R ELSE remove_each(R, DictKeyList(R.particles))

\* VisualParticleSystem.remove_all_group_particles
remove_all_group_particles(S, group) ==
    LET R == _validate_group(S, group)
    IN  IF ~Ok(R) THEN R ELSE remove_each(R, DictGet(R._group_particles, group).parts)

\* VisualParticleSystem.num_group_particles, the number it returns when it returns
num_group_particles(S, group) == Len(DictGet(S._group_particles, group).parts)

\* VisualParticleSystem.get_group_name
get_group_name(obj) == obj.name

\* a create_attachment_group that replaces a group that exists
create_attachment_group_overwrites(S, obj) ==
    IF ~Ok(S) THEN S
    ELSE LET group == get_group_name(obj) IN
         [S EXCEPT !._group_particles = DictSet(@, [name |-> group, parts |-> <<>>]),
                   !._group_objects = DictSet(@, [name |-> group, obj |-> obj])]

\* VisualParticleSystem.create_attachment_group
create_attachment_group(S, obj) ==
    IF ~Ok(S) THEN S
    ELSE LET group == get_group_name(obj) IN
         IF group \in groups(S) THEN Raise(S, "AssertionError")
         ELSE [S EXCEPT !._group_particles = DictSet(@, [name |-> group, parts |-> <<>>]),
                        !._group_objects = DictSet(@, [name |-> group, obj |-> obj])]

\* a remove_attachment_group that drops the group record and leaves its particles
remove_attachment_group_keeps_particles(S, group) ==
    LET R == _validate_group(S, group)
    IN  IF ~Ok(R) THEN R
        ELSE [R EXCEPT !._group_particles = DictPop(@, group),
                       !._group_objects = DictPop(@, group)]

\* VisualParticleSystem.remove_attachment_group
remove_attachment_group(S, group) ==
    LET R == remove_all_group_particles(_validate_group(S, group), group)
    IN  IF ~Ok(R) THEN R
        ELSE [R EXCEPT !._group_particles = DictPop(@, group),
                       !._group_objects = DictPop(@, group)]

\* VisualParticleSystem.update_particle_scaling: the default hook returns
\* (cls.min_scale, cls.max_scale) and neither reads the group nor changes anything
update_particle_scaling(S, group) == S

\* VisualParticleSystem.sample_scales: validates the group, then
\* set_scale_limits(*update_particle_scaling(group)) stores back the bounds it read
sample_scales(S, group, n) ==
    LET R == _validate_group(S, group)
    IN  IF ~Ok(R) THEN R ELSE update_particle_scaling(R, group)

\* np.cbrt(x) of a perfect cube
cbrt(x) == CHOOSE k \in 0..x : k * k * k = x

\* np.cbrt(np.product(obj.scale))
avg_scale(obj) == cbrt(obj.scale[1] * obj.scale[2] * obj.scale[3])

\* the quotient x / k as a fraction
Div(x, k) == [num |-> x, den |-> k]

\* a <= b for fractions of positive denominators
Leq(a, b) == a.num * b.den <= b.num * a.den

\* one number of np.random.uniform(low, high): low + (high - low) * random(), where
\* random() is u / UniformSteps
Uniform(low, high, u) == low + ((high - low) * u) \div UniformSteps

\* sample_scales that multiplies by the average scale of the host
sampled_scales_times_avg(obj, low, high, n, us) ==
    [i \in 1..n |-> [k \in 1..3 |-> Div(Uniform(low[k], high[k], us[i][k]) * avg_scale(obj), 1)]]

\* what sample_scales returns:
\* np.random.uniform(cls.min_scale, cls.max_scale, (n, 3)) / avg_scale
sampled_scales(obj, low, high, n, us) ==
    [i \in 1..n |-> [k \in 1..3 |-> Div(Uniform(low[k], high[k], us[i][k]), avg_scale(obj))]]

\* an assignment that lists the particle in every group
GroupAdd_every_group(S, group, name) ==
    [S EXCEPT !._group_particles =
                  [g \in DOMAIN @ |->
                      [@[g] EXCEPT !.parts = IF name \in Range(@) THEN @ ELSE Append(@, name)]]]

\* cls._group_particles[group][particle.name] = particle
GroupAdd(S, group, name) ==
    LET g == CHOOSE i \in DOMAIN S._group_particles : S._group_particles[i].name = group
    IN  [S EXCEPT !._group_particles[g].parts =
                      IF name \in Range(@) THEN @ ELSE Append(@, name)]

\* the default of VisualParticleSystem._CLIP_INTO_OBJECTS
_CLIP_INTO_OBJECTS == FALSE

Min(a, b) == IF a <= b THEN a ELSE b

RECURSIVE generate_each(_, _, _, _, _, _)
\* the loop of generate_group_particles over
\* zip(positions, orientations, scales, bbox_extents_local, link_prim_paths)
generate_each(S, group, positions, orientations, scales, link_prim_paths) ==
    IF ~Ok(S) \/ positions = <<>> \/ orientations = <<>> \/ scales = <<>>
       \/ link_prim_paths = <<>>
    THEN S
    ELSE LET name == particle_idn2name(get_next_particle_unique_idn(S).v)
             bbox_extent_local == Mul3(TemplateExtent, Head(scales))
             base_to_center == bbox_extent_local[3] \div 2
             normal == Normal(Head(orientations))
             position == IF _CLIP_INTO_OBJECTS
                         THEN [k \in 1..3 |-> Head(positions)[k] - normal[k] * base_to_center]
                         ELSE Head(positions)
             A == add_particle(S, Head(link_prim_paths), <<>>,
                               <<[pose |-> <<position, Head(orientations)>>,
                                  scale |-> Head(scales)]>>)
         IN  IF ~Ok(A) THEN A
             ELSE generate_each(GroupAdd(A, group, name), group, Tail(positions),
                                Tail(orientations), Tail(scales), Tail(link_prim_paths))

\* VisualParticleSystem.generate_group_particles.  orientations, scales and
\* link_prim_paths are <<>> for None; draws are the scales np.random.uniform returns
\* when sample_scales is called.
generate_group_particles(S, group, positions, orientations, scales, link_prim_paths, draws) ==
    LET R == update_particle_scaling(_validate_group(S, group), group)
    IN  IF ~Ok(R) THEN R
        ELSE LET obj == DictGet(R._group_objects, group).obj
                 n == Len(positions)
                 oris == IF orientations = <<>> THEN [i \in 1..n |-> <<0, 0, 0, 1>>]
                         ELSE orientations
                 links == IF link_prim_paths = <<>> THEN [i \in 1..n |-> RootLinkPath(obj)]
                          ELSE link_prim_paths
                 R2 == IF scales = <<>> THEN sample_scales(R, group, n) ELSE R
                 scs == IF scales = <<>> THEN SubSeq(draws, 1, n) ELSE scales
             IN  generate_each(R2, group, positions, oris, scs, links)

\* the candidates of results that have a position
Surviving(results) == SelectSeq(results, LAMBDA r : r.position # <<>>)

\* a generate_group_particles_on_object that does not clear the group first
generate_group_particles_on_object_keeps_old(S, group, n, min_particles_for_success, results, draws) ==
    LET R == sample_scales(_validate_group(S, group), group, n)
        kept == Surviving(results)
        positions == [i \in DOMAIN kept |-> kept[i].position[1]]
        orientations == [i \in DOMAIN kept |-> kept[i].quaternion]
        link_prim_paths == [i \in DOMAIN kept |-> kept[i].hit_link]
        success == Len(positions) >= min_particles_for_success
    IN  IF ~Ok(R) \/ ~success THEN R
        ELSE generate_group_particles(R, group, positions, orientations, draws,
                                      link_prim_paths, draws)

\* VisualParticleSystem.generate_group_particles_on_object, the system it leaves.
\* results is what sample_cuboid_on_object_symmetric_bimodal_distribution returns, one
\* entry per requested sample, position <<>> for None; draws are the n scales drawn.
generate_group_particles_on_object(S, group, n, min_particles_for_success, results, draws) ==
    LET R == sample_scales(remove_all_group_particles(_validate_group(S, group), group),
                           group, n)
        kept == Surviving(results)
        positions == [i \in DOMAIN kept |-> kept[i].position[1]]
        orientations == [i \in DOMAIN kept |-> kept[i].quaternion]
        link_prim_paths == [i \in DOMAIN kept |-> kept[i].hit_link]
        success == Len(positions) >= min_particles_for_success
    IN  IF ~Ok(R) \/ ~success THEN R
        \* scales=np.array(scales): the scales of all n samples, not of the kept ones
        ELSE generate_group_particles(R, group, positions, orientations, draws,
                                      link_prim_paths, draws)

\* what generate_group_particles_on_object returns when it returns
generate_success(min_particles_for_success, results) ==
    Len(Surviving(results)) >= min_particles_for_success

----------------------------------------------------------------------------
\* The state codec.  A state vector is a sequence of floats, indexed from 0 in the
\* code and from 1 here.

\* state[a:b] of a numpy array: the entries a .. b-1, cut at the end of the array
Slice(state, a, b) == SubSeq(state, a + 1, Min(b, Len(state)))

\* state[i]
At(state, i) == state[i + 1]

\* int(x) of a float that holds a whole number
IntOf(x) == x

\* MacroParticleSystem.state_size
base_state_size(S) ==
    LET size == 10 * n_particles(S) + 2
    IN  IF S.particle_object = <<>> THEN size ELSE size + 10

\* state_size that leaves out the entry of n_groups
state_size_without_n_groups(S) ==
    base_state_size(S) + 2 * Len(S._group_particles)
    + SumSeq([i \in DOMAIN S._group_particles |-> 2 * Len(S._group_particles[i].parts)])

\* VisualParticleSystem.state_size
state_size(S) ==
    base_state_size(S) + 1 + 2 * Len(S._group_particles)
    + SumSeq([i \in DOMAIN S._group_particles |-> 2 * Len(S._group_particles[i].parts)])

\* MacroParticleSystem._dump_state
base_dump_state(S) ==
    [max_particle_idn |-> S.max_particle_idn,
     n_particles |-> n_particles(S),
     poses |-> [i \in DOMAIN S.particles |-> S.particles[i].pose],
     scales |-> [i \in DOMAIN S.particles |-> S.particles[i].scale],
     template_pose |-> IF S.particle_object = <<>> THEN <<>>
                       ELSE <<S.particle_object[1].pose>>,
     template_scale |-> IF S.particle_object = <<>> THEN <<>>
                        ELSE <<S.particle_object[1].scale>>]

\* prim.prim_path.split("/")[-2]: the name of the link the particle prim is under
AttachedLinkName(prim) == prim.prim_path[Len(prim.prim_path) - 1]

\* dump_groups that saves the place of each particle in its group for its identifier
dump_groups_renumbered(S) ==
    [g \in DOMAIN S._group_particles |->
        LET group_name == S._group_particles[g].name
            group_particles == S._group_particles[g].parts
        IN  [name |-> group_name,
             particle_attached_obj_uuid |-> DictGet(S._group_objects, group_name).obj.uuid,
             n_particles |-> Len(group_particles),
             particle_idns |-> [i \in DOMAIN group_particles |-> i - 1],
             particle_attached_link_names |->
                 [i \in DOMAIN group_particles |->
                     AttachedLinkName(DictGet(S.particles, group_particles[i]))]]]

\* VisualParticleSystem._dump_state: the groups it adds to the dumped state
dump_groups(S) ==
    [g \in DOMAIN S._group_particles |->
        LET group_name == S._group_particles[g].name
            group_particles == S._group_particles[g].parts
        IN  [name |-> group_name,
             particle_attached_obj_uuid |-> DictGet(S._group_objects, group_name).obj.uuid,
             n_particles |-> Len(group_particles),
             particle_idns |-> [i \in DOMAIN group_particles |->
                                   particle_name2idn(group_particles[i])],
             particle_attached_link_names |->
                 [i \in DOMAIN group_particles |->
                     AttachedLinkName(DictGet(S.particles, group_particles[i]))]]]

\* VisualParticleSystem._dump_state
_dump_state(S) ==
    [base |-> base_dump_state(S), n_groups |-> Len(S._group_particles),
     groups |-> dump_groups(S)]

\* MacroParticleSystem._serialize: np.concatenate(states_flat).astype(float)
base_serialize(state) ==
    <<state.max_particle_idn.v, state.n_particles>>
    \o Flatten([i \in DOMAIN state.poses |-> state.poses[i][1] \o state.poses[i][2]])
    \o Flatten(state.scales)
    \o (IF state.template_pose = <<>> THEN <<>>
        ELSE state.template_pose[1][1] \o state.template_pose[1][2] \o state.template_scale[1])

\* group_obj_link2id[link_name]: the place of the link in obj.links.keys(), from 0
LinkId(obj, link_name) == (CHOOSE i \in DOMAIN obj.links : obj.links[i] = link_name) - 1

\* VisualParticleSystem._serialize, for the system S that is asked to serialize
_serialize(S, state) ==
    <<state.n_groups>>
    \o Flatten([g \in DOMAIN state.groups |->
           LET group_dict == state.groups[g]
               obj == DictGet(S._group_objects, group_dict.name).obj
           IN  <<group_dict.particle_attached_obj_uuid, group_dict.n_particles>>
               \o group_dict.particle_idns
               \o [i \in DOMAIN group_dict.particle_attached_link_names |->
                      LinkId(obj, group_dict.particle_attached_link_names[i])]])
    \o base_serialize(state.base)

\* MacroParticleSystem._deserialize: the state dict and the number of entries read.
\* size is cls.state_size of the system that deserializes.
base_deserialize(size, state) ==
    LET n == IntOf(At(state, 1))
        pose_offset_idx == 2
        scale_offset_idx == n * 7 + pose_offset_idx
        idx == 2 + n * 10
        has_template == size > idx
    IN  [state |->
            [max_particle_idn |-> [t |-> "float", v |-> At(state, 0)],
             n_particles |-> n,
             poses |-> [i \in 1..n |->
                 <<Slice(state, 7 * (i - 1) + pose_offset_idx,
                         7 * (i - 1) + pose_offset_idx + 3),
                   Slice(state, 7 * (i - 1) + pose_offset_idx + 3,
                         7 * i + pose_offset_idx)>>],
             scales |-> [i \in 1..n |->
                 Slice(state, 3 * (i - 1) + scale_offset_idx, 3 * i + scale_offset_idx)],
             template_pose |-> IF has_template
                               THEN <<<<Slice(state, idx, idx + 3),
                                        Slice(state, idx + 3, idx + 7)>>>>
                               ELSE <<>>,
             template_scale |-> IF has_template THEN <<Slice(state, idx + 7, idx + 10)>>
                                ELSE <<>>],
         idx |-> IF has_template THEN idx + 10 ELSE idx]

\* the entry of the last desired group whose host is obj_name: the dict comprehension
\* of _sync_particle_groups keeps the last entry of a repeated name
InfoOf(infos, obj_name) ==
    infos[CHOOSE i \in DOMAIN infos :
              /\ infos[i].obj # <<>> /\ infos[i].obj[1].name = obj_name
              /\ \A j \in (i + 1)..Len(infos) :
                     infos[j].obj = <<>> \/ infos[j].obj[1].name # obj_name]

RECURSIVE remove_groups(_, _)
\* for name in groups_to_delete: cls.remove_attachment_group(group=name)
remove_groups(S, names) ==
    IF names = <<>> \/ ~Ok(S) THEN S
    ELSE remove_groups(remove_attachment_group(S, Head(names)), Tail(names))

RECURSIVE readd_each_fresh_idn(_, _, _, _, _)
\* a loop that adds each particle under a newly allocated identifier
readd_each_fresh_idn(S, group, obj, particle_idns, link_names) ==
    IF ~Ok(S) \/ particle_idns = <<>> \/ link_names = <<>> THEN S
    ELSE LET A == add_particle(S, Append(obj.prim_path, Head(link_names)), <<>>, <<>>)
         IN  IF ~Ok(A) THEN A
             ELSE readd_each_fresh_idn(GroupAdd(A, group, Last(A.particles).name),
                                       group, obj, Tail(particle_idns), Tail(link_names))

RECURSIVE readd_each(_, _, _, _, _)
\* for particle_idn, link_name in zip(info["particle_idns"], info["link_names"])
readd_each(S, group, obj, particle_idns, link_names) ==
    IF ~Ok(S) \/ particle_idns = <<>> \/ link_names = <<>> THEN S
    ELSE LET A == add_particle(S, Append(obj.prim_path, Head(link_names)),
                               <<IntOf(Head(particle_idns))>>, <<>>)
         IN  IF ~Ok(A) THEN A
             ELSE readd_each(GroupAdd(A, group, particle_idn2name(IntOf(Head(particle_idns)))),
                             group, obj, Tail(particle_idns), Tail(link_names))

RECURSIVE create_groups(_, _, _)
\* for name in groups_to_create: look the host up by name, create its group, re-add
\* its particles under their saved identifiers
create_groups(S, names, infos) ==
    IF names = <<>> \/ ~Ok(S) THEN S
    ELSE LET name == Head(names)
             found == object_registry_name(name)
             info == InfoOf(infos, name)
         IN  IF found = <<>> THEN Raise(S, "AttributeError")
             ELSE create_groups(
                      readd_each(create_attachment_group(S, found[1]), name, found[1],
                                 info.particle_idns, info.link_names),
                      Tail(names), infos)

\* a synchronization that deletes no group that is not desired
sync_keeps_stale_groups(S, infos, order) ==
    IF ~Ok(S) THEN S
    ELSE LET current_group_names == groups(S)
             desired_group_names ==
                 {infos[i].obj[1].name : i \in {j \in DOMAIN infos : infos[j].obj # <<>>}}
             mismatched ==
                 {name \in current_group_names \cap desired_group_names :
                     num_group_particles(S, name) # Len(InfoOf(infos, name).particle_idns)}
             groups_to_create == (desired_group_names \ current_group_names) \cup mismatched
         IN  create_groups(
                 remove_groups(S, SelectSeq(order, LAMBDA name : name \in mismatched)),
                 SelectSeq(order, LAMBDA name : name \in groups_to_create),
                 infos)

\* a synchronization that rebuilds every group that is present and desired
sync_rebuilds_common(S, infos, order) ==
    IF ~Ok(S) THEN S
    ELSE LET current_group_names == groups(S)
             desired_group_names ==
                 {infos[i].obj[1].name : i \in {j \in DOMAIN infos : infos[j].obj # <<>>}}
         IN  create_groups(
                 remove_groups(S, SelectSeq(order, LAMBDA name : name \in current_group_names)),
                 SelectSeq(order, LAMBDA name : name \in desired_group_names),
                 infos)

\* VisualParticleSystem._sync_particle_groups.  infos[i] holds group_objects[i] (<<>>
\* for None), particle_idns[i] and particle_attached_link_names[i]; order is the order
\* in which this process iterates over a set of group names.
_sync_particle_groups(S, infos, order) ==
    IF ~Ok(S) THEN S
    ELSE LET current_group_names == groups(S)
             desired_group_names ==
                 {infos[i].obj[1].name : i \in {j \in DOMAIN infos : infos[j].obj # <<>>}}
             mismatched ==
                 {name \in current_group_names \cap desired_group_names :
                     num_group_particles(S, name) # Len(InfoOf(infos, name).particle_idns)}
             groups_to_delete == (current_group_names \ desired_group_names) \cup mismatched
             groups_to_create == (desired_group_names \ current_group_names) \cup mismatched
         IN  create_groups(
                 remove_groups(S, SelectSeq(order, LAMBDA name : name \in groups_to_delete)),
                 SelectSeq(order, LAMBDA name : name \in groups_to_create),
                 infos)

RECURSIVE read_groups(_, _, _)
\* the loop of VisualParticleSystem._deserialize over the n_groups group blocks that
\* start at idx: the group dicts read, the index after them, and the exception raised
\* when a host uuid is not in the scene (obj is None, obj.links fails)
read_groups(state, idx, n_groups) ==
    IF n_groups = 0 THEN [groups |-> <<>>, idx |-> idx, err |-> "none"]
    ELSE LET obj_uuid == IntOf(At(state, idx))
             n == IntOf(At(state, idx + 1))
             found == object_registry_uuid(obj_uuid)
         IN  IF found = <<>> THEN [groups |-> <<>>, idx |-> idx, err |-> "AttributeError"]
             ELSE LET obj == found[1]
                      rest == read_groups(state, idx + 2 + n * 2, n_groups - 1)
                      link_ids == Slice(state, idx + 2 + n, idx + 2 + n * 2)
                      group_dict ==
                          [name |-> obj.name,
                           obj |-> <<obj>>,
                           particle_attached_obj_uuid |-> obj_uuid,
                           n_particles |-> n,
                           particle_idns |->
                               [i \in 1..n |-> IntOf(At(state, idx + 2 + (i - 1)))],
                           particle_attached_link_names |->
                               [i \in DOMAIN link_ids |-> obj.links[IntOf(link_ids[i]) + 1]]]
                  IN  [rest EXCEPT !.groups = <<group_dict>> \o @]

\* the arguments _deserialize and _load_state pass to _sync_particle_groups
SyncInfos(group_dicts) ==
    [i \in DOMAIN group_dicts |->
        [obj |-> group_dicts[i].obj,
         particle_idns |-> group_dicts[i].particle_idns,
         link_names |-> group_dicts[i].particle_attached_link_names]]

\* VisualParticleSystem._deserialize: the system it leaves (it synchronizes the groups)
\* and the state dict it returns
_deserialize(S, state, order) ==
    LET n_groups == IntOf(At(state, 0))
        read == read_groups(state, 1, n_groups)
    IN  IF read.err # "none" THEN [sys |-> Raise(S, read.err), state |-> <<>>]
        ELSE LET R == _sync_particle_groups(S, SyncInfos(read.groups), order)
             IN  IF ~Ok(R) THEN [sys |-> R, state |-> <<>>]
                 ELSE [sys |-> R,
                       state |-> <<[base |-> base_deserialize(state_size(R),
                                        Slice(state, read.idx, Len(state))).state,
                                    groups |-> read.groups]>>]

RECURSIVE restore_each(_, _, _, _)
\* for particle, pose, scale in zip(cls.particles.values(), state["poses"], state["scales"])
restore_each(ps, i, poses, scales) ==
    IF i > Len(ps) \/ i > Len(poses) \/ i > Len(scales) THEN ps
    ELSE restore_each([ps EXCEPT ![i].pose = poses[i], ![i].scale = scales[i]],
                      i + 1, poses, scales)

\* _load_state without its loop over the particles: the poses and scales stay
base_load_state_keeps_poses(S, state) ==
    IF ~Ok(S) THEN S
    ELSE IF n_particles(S) # state.n_particles THEN Raise(S, "AssertionError")
    ELSE [S EXCEPT !.max_particle_idn = state.max_particle_idn]

\* _load_state that restores before it compares the counts
base_load_state_restores_first(S, state) ==
    IF ~Ok(S) THEN S
    ELSE LET R == [S EXCEPT !.max_particle_idn = state.max_particle_idn,
                            !.particles = restore_each(@, 1, state.poses, state.scales)]
         IN  IF n_particles(S) # state.n_particles THEN Raise(R, "AssertionError") ELSE R

\* MacroParticleSystem._load_state
base_load_state(S, state) ==
    IF ~Ok(S) THEN S
    ELSE IF n_particles(S) # state.n_particles THEN Raise(S, "AssertionError")
    ELSE LET R == [S EXCEPT !.max_particle_idn = state.max_particle_idn,
                            !.particles = restore_each(@, 1, state.poses, state.scales)]
         IN  IF state.template_pose = <<>> THEN R
             ELSE IF R.particle_object = <<>> THEN Raise(R, "AttributeError")
             ELSE [R EXCEPT !.particle_object =
                       <<[pose |-> state.template_pose[1], scale |-> state.template_scale[1]]>>]

\* _load_state that restores the poses and scales before it compares the counts
load_state_restores_first(S, state, order) ==
    IF ~Ok(S) THEN S
    ELSE LET R0 == [S EXCEPT !.max_particle_idn = state.base.max_particle_idn]
             infos == [i \in DOMAIN state.groups |->
                          [obj |-> object_registry_uuid(
                                       state.groups[i].particle_attached_obj_uuid),
                           particle_idns |-> state.groups[i].particle_idns,
                           link_names |-> state.groups[i].particle_attached_link_names]]
             R == _sync_particle_groups(R0, infos, order)
         IN  IF ~Ok(R) THEN R
             ELSE base_load_state_restores_first(R, state.base)

\* _load_state that restores the poses and scales, then synchronizes the groups
load_state_before_sync(S, state, order) ==
    IF ~Ok(S) THEN S
    ELSE LET R0 == [S EXCEPT !.max_particle_idn = state.base.max_particle_idn,
                             !.particles = restore_each(@, 1, state.base.poses,
                                                        state.base.scales)]
             infos == [i \in DOMAIN state.groups |->
                          [obj |-> object_registry_uuid(
                                       state.groups[i].particle_attached_obj_uuid),
                           particle_idns |-> state.groups[i].particle_idns,
                           link_names |-> state.groups[i].particle_attached_link_names]]
             R == _sync_particle_groups(R0, infos, order)
         IN  IF ~Ok(R) THEN R
             ELSE IF n_particles(R) # state.base.n_particles THEN Raise(R, "AssertionError")
             ELSE R

\* VisualParticleSystem._load_state: the hosts are looked up again by uuid, with None
\* for a uuid the scene does not hold
_load_state(S, state, order) ==
    IF ~Ok(S) THEN S
    ELSE LET R0 == [S EXCEPT !.max_particle_idn = state.base.max_particle_idn]
             infos == [i \in DOMAIN state.groups |->
                          [obj |-> object_registry_uuid(
                                       state.groups[i].particle_attached_obj_uuid),
                           particle_idns |-> state.groups[i].particle_idns,
                           link_names |-> state.groups[i].particle_attached_link_names]]
             R == _sync_particle_groups(R0, infos, order)
         IN  IF ~Ok(R) THEN R
             ELSE IF n_particles(R) # state.base.n_particles THEN Raise(R, "AssertionError")
             ELSE base_load_state(R, state.base)

\* load_state(state, serialized=True): _deserialize, then _load_state
load_serialized(S, state, order) ==
    LET D == _deserialize(S, state, order)
    IN  IF ~Ok(D.sys) THEN D.sys ELSE _load_state(D.sys, D.state[1], order)

----------------------------------------------------------------------------
\* The class hierarchy: which class holds each attribute. A class attribute is read
\* from the first class of the method resolution order that has it; `cls.x = v` writes
\* it in the __dict__ of cls itself, while a change in place of the dictionary it names
\* reaches whichever class holds that dictionary. Here particles is the set of tracked
\* identifiers and the two group dictionaries are the sets of their keys.

Classes == {"MacroParticleSystem", "VisualParticleSystem", "DustSystem", "StainSystem"}

\* the classes VisualParticleSystem.create has made, which can create their template
ConcreteClasses == {"DustSystem", "StainSystem"}

\* the base class of a class of the hierarchy
BaseClass(c) == IF c = "VisualParticleSystem" THEN "MacroParticleSystem" ELSE "VisualParticleSystem"

\* an attribute a class does not have in its __dict__, one that is None, one with a value
NoAttr(v) == [own |-> FALSE, none |-> TRUE, v |-> v]

NoneAttr(v) == [own |-> TRUE, none |-> TRUE, v |-> v]

Attr(v) == [own |-> TRUE, none |-> FALSE, v |-> v]

\* the attributes as the class bodies leave them: None in the class that declares them
ClassBody ==
    [c \in Classes |->
        IF c = "MacroParticleSystem"
        THEN [particles |-> NoneAttr({}), min_scale |-> NoneAttr(<<>>),
              max_scale |-> NoneAttr(<<>>), max_particle_idn |-> NoneAttr(0),
              particle_object |-> NoneAttr(""), _group_particles |-> NoAttr({}),
              _group_objects |-> NoAttr({})]
        ELSE IF c = "VisualParticleSystem"
        THEN [particles |-> NoAttr({}), min_scale |-> NoAttr(<<>>),
              max_scale |-> NoAttr(<<>>), max_particle_idn |-> NoAttr(0),
              particle_object |-> NoAttr(""), _group_particles |-> NoneAttr({}),
              _group_objects |-> NoneAttr({})]
        ELSE [particles |-> NoAttr({}), min_scale |-> NoAttr(<<>>),
              max_scale |-> NoAttr(<<>>), max_particle_idn |-> NoAttr(0),
              particle_object |-> NoAttr(""), _group_particles |-> NoAttr({}),
              _group_objects |-> NoAttr({})]]

RECURSIVE Holder(_, _, _)
\* the class whose __dict__ the lookup of cls.a ends in
Holder(A, c, a) == IF A[c][a].own THEN c ELSE Holder(A, BaseClass(c), a)

\* cls.a
Lookup(A, c, a) == A[Holder(A, c, a)][a]

\* cls.a = v
Assign(A, c, a, v) == [A EXCEPT ![c][a] = Attr(v)]

\* a change in place of the object cls.a names
Mutate(A, c, a, v) == [A EXCEPT ![Holder(A, c, a)][a] = Attr(v)]

\* the result of a call on a class: the attributes after it and what it raised
Done(A) == [attrs |-> A, err |-> "none"]

Failed(A, err) == [attrs |-> A, err |-> err]

\* an initialize that stores the collections in the class that defines initialize
class_initialize_on_base(A, cls) ==
    LET A1 == Assign(Assign(Assign(Assign(A, "VisualParticleSystem", "particles", {}),
                                   "VisualParticleSystem", "min_scale", <<1, 1, 1>>),
                            "VisualParticleSystem", "max_scale", <<1, 1, 1>>),
                     "VisualParticleSystem", "max_particle_idn", -1)
    IN  IF cls \notin ConcreteClasses THEN Failed(A1, "NotImplementedError")
        ELSE Done(Assign(Assign(Assign(A1, "VisualParticleSystem", "particle_object", cls),
                                "VisualParticleSystem", "_group_particles", {}),
                         "VisualParticleSystem", "_group_objects", {}))

\* cls.initialize(simulator): MacroParticleSystem.initialize assigns the registry
\* attributes and asks for the template, which only a class made by create provides;
\* VisualParticleSystem.initialize then assigns the two group dictionaries
class_initialize(A, cls) ==
    LET A1 == Assign(Assign(Assign(Assign(A, cls, "particles", {}),
                                   cls, "min_scale", <<1, 1, 1>>),
                            cls, "max_scale", <<1, 1, 1>>),
                     cls, "max_particle_idn", -1)
    IN  IF cls \notin ConcreteClasses THEN Failed(A1, "NotImplementedError")
        ELSE Done(Assign(Assign(Assign(A1, cls, "particle_object", cls),
                                cls, "_group_particles", {}),
                         cls, "_group_objects", {}))

\* cls.add_particle(prim_path) with idn None
class_add_particle(A, cls) ==
    IF Lookup(A, cls, "max_particle_idn").none THEN Failed(A, "TypeError")
    ELSE LET idn == Lookup(A, cls, "max_particle_idn").v + 1
             tracked == Lookup(A, cls, "particles")
         IN  IF tracked.none THEN Failed(A, "AttributeError")
             ELSE IF idn \in tracked.v THEN Failed(A, "AssertionError")
             ELSE Done(Assign(Mutate(A, cls, "particles", tracked.v \cup {idn}),
                              cls, "max_particle_idn", idn))

\* cls.remove_particle(name) for the particle of identifier idn: the registry pops it,
\* then the group layer walks cls._group_particles.values()
class_remove_particle(A, cls, idn) ==
    LET tracked == Lookup(A, cls, "particles")
    IN  IF tracked.none THEN Failed(A, "TypeError")
        ELSE IF idn \notin tracked.v THEN Failed(A, "AssertionError")
        ELSE LET A1 == Mutate(A, cls, "particles", tracked.v \ {idn})
             IN  IF Lookup(A, cls, "_group_particles").none
                 THEN Failed(A1, "AttributeError")
                 ELSE Done(A1)

RECURSIVE class_remove_all_particles(_, _)
\* cls.remove_all_particles(), in the order of the identifiers
class_remove_all_particles(A, cls) ==
    LET tracked == Lookup(A, cls, "particles")
    IN  IF tracked.none THEN Failed(A, "AttributeError")
        ELSE IF tracked.v = {} THEN Done(A)
        ELSE LET first == CHOOSE i \in tracked.v : \A j \in tracked.v : i <= j
                 R == class_remove_particle(A, cls, first)
             IN  IF R.err # "none" THEN R ELSE class_remove_all_particles(R.attrs, cls)

\* cls.reset()
class_reset(A, cls) ==
    LET R == class_remove_all_particles(A, cls)
    IN  IF R.err # "none" THEN R ELSE Done(Assign(R.attrs, cls, "max_particle_idn", -1))

\* cls.create_attachment_group(obj) for an object named group
class_create_attachment_group(A, cls, group) ==
    LET held == Lookup(A, cls, "_group_particles")
    IN  IF held.none THEN Failed(A, "AttributeError")
        ELSE IF group \in held.v THEN Failed(A, "AssertionError")
        ELSE Done(Mutate(Mutate(A, cls, "_group_particles", held.v \cup {group}),
                         cls, "_group_objects",
                         Lookup(A, cls, "_group_objects").v \cup {group}))

\* cls.remove_attachment_group(group) of a group that holds no particle
class_remove_attachment_group(A, cls, group) ==
    LET held == Lookup(A, cls, "_group_particles")
    IN  IF held.none THEN Failed(A, "AttributeError")
        ELSE IF group \notin held.v THEN Failed(A, "ValueError")
        ELSE Done(Mutate(Mutate(A, cls, "_group_particles", held.v \ {group}),
                         cls, "_group_objects",
                         Lookup(A, cls, "_group_objects").v \ {group}))

\* cls.set_scale_limits(minimum, maximum); <<>> stands for None
class_set_scale_limits(A, cls, minimum, maximum) ==
    LET A1 == IF minimum # <<>> THEN Assign(A, cls, "min_scale", minimum) ELSE A
    IN  Done(IF maximum # <<>> THEN Assign(A1, cls, "max_scale", maximum) ELSE A1)

\* cls._load_state(state) of a state without groups, with n particles and the given
\* max_particle_idn: the maximum is assigned, the groups that exist are removed by
\* _sync_particle_groups, the counts are compared
class_load_state(A, cls, max, n) ==
    LET A1 == Assign(A, cls, "max_particle_idn", max)
        held == Lookup(A1, cls, "_group_particles")
    IN  IF held.none THEN Failed(A1, "AttributeError")
        ELSE LET A2 == Mutate(Mutate(A1, cls, "_group_particles", {}),
                              cls, "_group_objects", {})
             IN  IF Cardinality(Lookup(A2, cls, "particles").v) # n
                 THEN Failed(A2, "AssertionError")
                 ELSE Done(A2)

\* what a class sees of the collections, the scale bounds and max_particle_idn
ClassView(A, c) ==
    [a \in {"particles", "min_scale", "max_scale", "max_particle_idn", "_group_particles",
             "_group_objects"} |-> [none |-> Lookup(A, c, a).none, v |-> Lookup(A, c, a).v]]

\* whether no attribute a class sees is None, as after its initialize
ClassInitialized(A, c) ==
    \A a \in {"particles", "min_scale", "max_scale", "max_particle_idn", "particle_object",
               "_group_particles", "_group_objects"} : ~Lookup(A, c, a).none

----------------------------------------------------------------------------
\* The scaling of StainSystem. Lengths are whole multiples of 0.00001; the fractions
\* 0.06 and 0.1 are 6 and 10 hundredths.

_BOUNDING_BOX_LOWER_LIMIT_FRACTION_OF_AABB == Div(6, 100)

_BOUNDING_BOX_LOWER_LIMIT_MIN == 1000

_BOUNDING_BOX_LOWER_LIMIT_MAX == 2000

_BOUNDING_BOX_UPPER_LIMIT_FRACTION_OF_AABB == Div(10, 100)

_BOUNDING_BOX_UPPER_LIMIT_MIN == 2000

_BOUNDING_BOX_UPPER_LIMIT_MAX == 10000

\* np.median of three numbers
np_median(e) ==
    CHOOSE m \in Range(e) :
        \E i, j, k \in 1..3 : /\ {i, j, k} = 1..3 /\ e[j] = m
                               /\ e[i] <= m /\ m <= e[k]

\* a clip that returns its argument
np_clip_none(a, a_min, a_max) == a

\* np.clip(a, a_min, a_max) = minimum(a_max, maximum(a, a_min))
np_clip(a, a_min, a_max) == Min(a_max, IF a >= a_min THEN a ELSE a_min)

\* fraction * median_aabb_dim, of a dimension that is a multiple of the denominator
FractionOf(fraction, dim) == (fraction.num * dim) \div fraction.den

\* stain_update_particle_scaling: the (minimum, maximum) it returns for a host whose
\* aabb_extent is extent and a template whose aabb_extent is particle_bbox
stain_update_particle_scaling(extent, particle_bbox) ==
    LET median_aabb_dim == np_median(extent)
        bbox_lower_limit ==
            np_clip(FractionOf(_BOUNDING_BOX_LOWER_LIMIT_FRACTION_OF_AABB, median_aabb_dim),
                    _BOUNDING_BOX_LOWER_LIMIT_MIN, _BOUNDING_BOX_LOWER_LIMIT_MAX)
        bbox_upper_limit ==
            np_clip(FractionOf(_BOUNDING_BOX_UPPER_LIMIT_FRACTION_OF_AABB, median_aabb_dim),
                    _BOUNDING_BOX_UPPER_LIMIT_MIN, _BOUNDING_BOX_UPPER_LIMIT_MAX)
    IN  <<<<Div(bbox_lower_limit, particle_bbox[1]), Div(bbox_lower_limit, particle_bbox[2]),
            Div(1, 1)>>,
          <<Div(bbox_upper_limit, particle_bbox[1]), Div(bbox_upper_limit, particle_bbox[2]),
            Div(1, 1)>>>>

----------------------------------------------------------------------------
\* VisualParticleSystem.create. A class is the record of its name, its base class, the
\* attributes given to it and the min_scale and max_scale its initialize closes over;
\* an attribute value is a number or the name of a function.

Num(n) == [num |-> n, ref |-> ""]

Ref(f) == [num |-> 0, ref |-> f]

\* no class: create has not been called
NoClass == [name |-> "", base |-> "", dict |-> <<>>, min_scale |-> <<>>, max_scale |-> <<>>]

\* subclass_factory(name, base_classes, **kwargs): the class of that name and base
\* whose attributes are kwargs
subclass_factory(name, base_classes, kwargs) ==
    [name |-> name, base |-> base_classes, dict |-> kwargs]

\* f"{particle_name}System"
SystemClassName(particle_name) ==
    IF particle_name = "Dust" THEN "DustSystem" ELSE "StainSystem"

\* VisualParticleSystem.create: the four attributes it sets replace entries of kwargs
\* of the same names
create(particle_name, n_particles_per_group, minimum, maximum, kwargs) ==
    LET k1 == DictSet(kwargs, [name |-> "_register_system", v |-> Ref("cp_register_system")])
        k2 == DictSet(k1, [name |-> "_N_PARTICLES_PER_GROUP", v |-> Num(n_particles_per_group)])
        k3 == DictSet(k2, [name |-> "initialize", v |-> Ref("cm_initialize")])
        k4 == DictSet(k3, [name |-> "_create_particle_template",
                           v |-> Ref("cm_create_particle_template")])
        C == subclass_factory(SystemClassName(particle_name), "VisualParticleSystem", k4)
    IN  [name |-> C.name, base |-> C.base, dict |-> C.dict,
         min_scale |-> minimum, max_scale |-> maximum]

\* cls._register_system of a class: cp_register_system returns True
_register_system(C) ==
    /\ "_register_system" \in DictKeys(C.dict)
    /\ DictGet(C.dict, "_register_system").v = Ref("cp_register_system")

\* n_particles = cls._N_PARTICLES_PER_GROUP if n_particles is None else n_particles
n_particles_or_default(C, n) ==
    IF n = <<>> THEN DictGet(C.dict, "_N_PARTICLES_PER_GROUP").v.num ELSE n[1]

\* a cm_initialize that leaves the scale bounds as the base initialize set them
cm_initialize_default_scales(A, C) ==
    IF DictGet(C.dict, "initialize").v # Ref("cm_initialize") THEN Failed(A, "TypeError")
    ELSE class_initialize(A, C.name)

\* cm_initialize of the class C that create made: the initialize of the base class,
\* then min_scale and max_scale where create was given them
cm_initialize(A, C) ==
    IF DictGet(C.dict, "initialize").v # Ref("cm_initialize") THEN Failed(A, "TypeError")
    ELSE LET R == class_initialize(A, C.name)
         IN  IF R.err # "none" THEN R
             ELSE class_set_scale_limits(R.attrs, C.name, C.min_scale, C.max_scale)

----------------------------------------------------------------------------
\* Actions.

\* the identifiers of the tracked particles
TrackedIdns(ps) == {particle_name2idn(ps[i].name) : i \in DOMAIN ps}

\* the variables after a call that left the system as R and returned ret, or the array
\* out; n is the number the call returned or was given or, for a load, the saved system
\* it was given
CommitReturning(R, op, ret, n, out) ==
    /\ particles' = R.particles
    /\ max_particle_idn' = R.max_particle_idn
    /\ _group_particles' = R._group_particles
    /\ _group_objects' = R._group_objects
    /\ particle_object' = R.particle_object
    /\ last' = [op |-> op, err |-> R.err, ret |-> IF Ok(R) THEN ret ELSE "raised",
                n |-> n]
    /\ assigned' = IF op = "reset" /\ Ok(R) THEN {}
                   ELSE assigned \cup TrackedIdns(R.particles)
    /\ sampled' = IF Ok(R) THEN out ELSE <<>>
    /\ UNCHANGED <<initialized, min_scale, max_scale, class_attrs, created, physics, saved_states>>

\* the variables after a call that returned no array
Commit(R, op, ret, n) == CommitReturning(R, op, ret, n, <<>>)

Init ==
    /\ initialized = FALSE
    /\ particles = <<>>
    /\ max_particle_idn = [t |-> "int", v |-> -1]
    /\ _group_particles = <<>>
    /\ _group_objects = <<>>
    /\ particle_object = <<>>
    /\ last = [op |-> "import", err |-> "none", ret |-> "None", n |-> 0]
    /\ assigned = {}
    /\ min_scale = <<>>
    /\ max_scale = <<>>
    /\ sampled = <<>>
    /\ class_attrs = ClassBody
    /\ created = NoClass
    /\ physics = [obj |-> 0, other |-> 0]
    /\ saved_states = {}

\* an initialize that does nothing to a class it has initialized before
Initialize_once ==
    /\ initialized' = TRUE
    /\ particles' = IF initialized THEN particles ELSE <<>>
    /\ max_particle_idn' = IF initialized THEN max_particle_idn ELSE [t |-> "int", v |-> -1]
    /\ particle_object' = IF initialized THEN particle_object ELSE <<TemplatePrim>>
    /\ _group_particles' = IF initialized THEN _group_particles ELSE <<>>
    /\ _group_objects' = IF initialized THEN _group_objects ELSE <<>>
    /\ last' = [op |-> "initialize", err |-> "none", ret |-> "None", n |-> Len(particles)]
    /\ assigned' = IF initialized THEN assigned ELSE {}
    /\ min_scale' = IF initialized THEN min_scale ELSE <<1, 1, 1>>
    /\ max_scale' = IF initialized THEN max_scale ELSE <<1, 1, 1>>
    /\ sampled' = <<>>
    /\ UNCHANGED <<class_attrs, created, physics, saved_states>>

\* cls.initialize(simulator) of MacroParticleSystem and VisualParticleSystem; n is the
\* number of particles the class tracked when it was called
Initialize ==
    /\ initialized' = TRUE
    /\ particles' = <<>>
    /\ max_particle_idn' = [t |-> "int", v |-> -1]
    /\ particle_object' = <<TemplatePrim>>
    /\ _group_particles' = <<>>
    /\ _group_objects' = <<>>
    /\ last' = [op |-> "initialize", err |-> "none", ret |-> "None", n |-> Len(particles)]
    /\ assigned' = {}
    /\ min_scale' = <<1, 1, 1>>
    /\ max_scale' = <<1, 1, 1>>
    /\ sampled' = <<>>
    /\ UNCHANGED <<class_attrs, created, physics, saved_states>>

\* the methods a client calls on the class
Methods ==
    {"add_particle", "remove_particle", "remove_all_particles", "reset",
     "create_attachment_group", "remove_attachment_group", "remove_all_group_particles",
     "num_group_particles", "update_particle_scaling", "sample_scales",
     "generate_group_particles", "generate_group_particles_on_object",
     "_dump_state", "_load_state"}

\* What a method raises while the class attributes are None as the class body leaves
\* them: the exception of its first use of one. add_particle adds 1 to None,
\* remove_particle tests `name in None`, _dump_state takes len(None); the others ask
\* None for its keys, the group methods through cls.groups; update_particle_scaling
\* only returns (cls.min_scale, cls.max_scale).
none_error(op) ==
    CASE op \in {"add_particle", "remove_particle", "_dump_state"} -> "TypeError"
      [] op = "update_particle_scaling" -> "none"
      [] OTHER -> "AttributeError"

\* a call of a method before initialize(simulator); _load_state assigns
\* cls.max_particle_idn from the state, here the one saved from SavedFreeAB, before
\* _sync_particle_groups asks for cls.groups
CallBeforeInitialize(op) ==
    /\ ~initialized
    /\ last' = [op |-> op, err |-> none_error(op),
                ret |-> IF none_error(op) = "none" THEN "None" ELSE "raised", n |-> 0]
    /\ max_particle_idn' = IF op = "_load_state" THEN [t |-> "int", v |-> 1]
                           ELSE max_particle_idn
    /\ UNCHANGED <<initialized, particles, _group_particles, _group_objects,
                   particle_object, assigned, min_scale, max_scale, sampled, class_attrs,
                   created, physics, saved_states>>

\* the identifiers a caller passes explicitly
ExplicitIdns == {1}

\* cls.add_particle(prim_path, idn, scale, position, orientation)
AddParticle(idn, placement) ==
    /\ initialized
    /\ Len(particles) < MaxParticles
    /\ max_particle_idn.v < MaxIdn
    /\ Commit(add_particle(St, FreePath, idn, <<placement>>), "add_particle", "particle", 0)

\* cls.remove_particle(name); n is 1 when a group held the particle
RemoveParticle(name) ==
    /\ initialized
    /\ Commit(remove_particle(St, name), "remove_particle", "None",
              IF FirstGroupWith(_group_particles, name) = 0 THEN 0 ELSE 1)

\* cls.remove_all_particles()
RemoveAllParticles ==
    /\ initialized
    /\ Commit(remove_all_particles(St), "remove_all_particles", "None", 0)

\* cls.reset()
Reset ==
    /\ initialized
    /\ Commit(reset(St), "reset", "None", 0)

\* cls.create_attachment_group(obj), which returns the name of the group
CreateAttachmentGroup(obj) ==
    /\ initialized
    /\ Commit(create_attachment_group(St, obj), "create_attachment_group",
              get_group_name(obj), 0)

\* cls.remove_attachment_group(group); n is the number of particles the group held
RemoveAttachmentGroup(group) ==
    /\ initialized
    /\ Commit(remove_attachment_group(St, group), "remove_attachment_group", "group",
              IF group \in groups(St) THEN num_group_particles(St, group) ELSE 0)

\* cls.remove_all_group_particles(group)
RemoveAllGroupParticles(group) ==
    /\ initialized
    /\ Commit(remove_all_group_particles(St, group), "remove_all_group_particles", "None", 0)

\* cls.num_group_particles(group)
NumGroupParticles(group) ==
    /\ initialized
    /\ LET R == _validate_group(St, group)
       IN  Commit(R, "num_group_particles", "int",
                  IF Ok(R) THEN num_group_particles(R, group) ELSE 0)

\* cls.update_particle_scaling(group)
UpdateParticleScaling(group) ==
    /\ initialized
    /\ Commit(update_particle_scaling(St, group), "update_particle_scaling", "bounds", 0)

\* the host a call about group is made for: its host object, Chair1 for a missing group
HostOf(group) ==
    IF group \in DictKeys(_group_objects) THEN DictGet(_group_objects, group).obj ELSE Chair1

\* the rows of numbers random() gives for one triple, as multiples of 1/UniformSteps
UnitRows == {<<0, 0, 0>>, <<1, 0, 1>>}

\* the numbers random() gives for n triples
UnitDraws(n) == [1..n -> UnitRows]

\* cls.sample_scales(group, n), where random() gives us
SampleScales(group, n, us) ==
    /\ initialized
    /\ CommitReturning(sample_scales(St, group, n), "sample_scales", "scales", n,
                       sampled_scales(HostOf(group), min_scale, max_scale, n, us))

\* the bounds a client passes to set_scale_limits; <<>> stands for None
ScaleLimits == {<<>>, <<1, 1, 1>>, <<2, 3, 4>>, <<4, 4, 4>>}

\* cls.set_scale_limits(minimum, maximum)
SetScaleLimits(minimum, maximum) ==
    /\ initialized
    /\ min_scale' = IF minimum # <<>> THEN minimum ELSE min_scale
    /\ max_scale' = IF maximum # <<>> THEN maximum ELSE max_scale
    /\ last' = [op |-> "set_scale_limits", err |-> "none", ret |-> "None", n |-> 0]
    /\ sampled' = <<>>
    /\ UNCHANGED <<initialized, particles, max_particle_idn, _group_particles,
                   _group_objects, particle_object, assigned, class_attrs, created, physics, saved_states>>

\* a sample the surface sampler rejected: its position is None
Rejected == [position |-> <<>>, quaternion |-> <<>>, hit_link |-> <<>>]

\* the hit of the i-th sample on the host: the root link at PoseA for an odd i, the
\* last link at PoseB for an even i
Hit(obj, i) ==
    IF i % 2 = 1
    THEN [position |-> <<PoseA[1]>>, quaternion |-> PoseA[2], hit_link |-> RootLinkPath(obj)]
    ELSE [position |-> <<PoseB[1]>>, quaternion |-> PoseB[2],
          hit_link |-> Append(obj.prim_path, Last(obj.links))]

\* what the surface sampler returns for n samples: each sample is rejected or hits
Candidates(obj, n) ==
    {[i \in 1..n |-> IF i \in hits THEN Hit(obj, i) ELSE Rejected] : hits \in SUBSET (1..n)}

\* the scales n calls of np.random.uniform return: ScaleA and ScaleB in turn
ScaleDraws(n) == {[i \in 1..n |-> IF i % 2 = 1 THEN ScaleA ELSE ScaleB]}

\* cls.generate_group_particles(group, positions, orientations, scales, link_prim_paths)
\* with every optional argument given
GenerateGroupParticles(group, placed, scales) ==
    /\ initialized
    /\ Len(particles) + Len(placed) <= MaxParticles
    /\ max_particle_idn.v + Len(placed) <= MaxIdn
    /\ Commit(generate_group_particles(St, group,
                  [i \in DOMAIN placed |-> placed[i].position[1]],
                  [i \in DOMAIN placed |-> placed[i].quaternion],
                  scales,
                  [i \in DOMAIN placed |-> placed[i].hit_link],
                  <<>>),
              "generate_group_particles", "None", 0)

\* cls.generate_group_particles(group, positions) with the optional arguments omitted
GenerateGroupParticlesDefault(group, positions, draws) ==
    /\ initialized
    /\ Len(particles) + Len(positions) <= MaxParticles
    /\ max_particle_idn.v + Len(positions) <= MaxIdn
    /\ Commit(generate_group_particles(St, group, positions, <<>>, <<>>, <<>>, draws),
              "generate_group_particles", "None", 0)

\* the tracked particles that are not in the group
OutsideGroup(group) ==
    IF group \in DictKeys(_group_particles)
    THEN Len(particles) - Len(DictGet(_group_particles, group).parts)
    ELSE Len(particles)

\* cls.generate_group_particles_on_object(group, n_particles, min_particles_for_success)
GenerateGroupParticlesOnObject(group, n, min_particles_for_success, results, draws) ==
    /\ initialized
    /\ OutsideGroup(group) + Len(Surviving(results)) <= MaxParticles
    /\ max_particle_idn.v + Len(Surviving(results)) <= MaxIdn
    /\ Commit(generate_group_particles_on_object(St, group, n, min_particles_for_success,
                                                 results, draws),
              "generate_group_particles_on_object",
              IF generate_success(min_particles_for_success, results) THEN "True" ELSE "False",
              Len(Surviving(results)))

\* the system right after initialize()
Fresh ==
    [particles |-> <<>>,
     max_particle_idn |-> [t |-> "int", v |-> -1],
     _group_particles |-> <<>>,
     _group_objects |-> <<>>,
     particle_object |-> <<TemplatePrim>>,
     err |-> "none"]

PlacedA == [pose |-> PoseA, scale |-> ScaleA]

PlacedB == [pose |-> PoseB, scale |-> ScaleB]

\* Saved systems: each is reached from Fresh by the calls written here.
\* Two particles in no group, identifiers 0 and 1.
SavedFreeAB ==
    add_particle(add_particle(Fresh, FreePath, <<>>, <<PlacedA>>), FreePath, <<>>, <<PlacedB>>)

\* The same two particles, placed the other way round.
SavedFreeBA ==
    add_particle(add_particle(Fresh, FreePath, <<>>, <<PlacedB>>), FreePath, <<>>, <<PlacedA>>)

\* No particle left, max_particle_idn 1.
SavedEmpty ==
    remove_all_particles(SavedFreeAB)

\* Group chair1 holds particle 1 on its link seat, group table1 holds particle 2;
\* particle 0 was removed, max_particle_idn is 2.
SavedGroups ==
    LET onChair == generate_group_particles(create_attachment_group(Fresh, Chair1), "chair1",
                       <<PoseA[1], PoseB[1]>>, <<PoseA[2], PoseB[2]>>, <<ScaleA, ScaleB>>,
                       <<RootLinkPath(Chair1), Append(Chair1.prim_path, "seat")>>, <<>>)
        removed == remove_particle(onChair, particle_idn2name(0))
    IN  generate_group_particles(create_attachment_group(removed, Table1), "table1",
            <<PoseA[1]>>, <<PoseA[2]>>, <<ScaleB>>, <<RootLinkPath(Table1)>>, <<>>)

\* Group chair1 of the object Chair1Twin, which the scene registry does not hold,
\* holds particle 0.
SavedTwin ==
    generate_group_particles(create_attachment_group(Fresh, Chair1Twin), "chair1",
        <<PoseA[1]>>, <<PoseA[2]>>, <<ScaleA>>, <<RootLinkPath(Chair1Twin)>>, <<>>)

Snapshots == <<SavedFreeAB, SavedFreeBA, SavedEmpty, SavedGroups, SavedTwin>>

\* the system whose dumped state a load receives: a saved system, or for 0 the
\* system itself as it is when load is called
SavedSystem(src) == IF src = 0 THEN St ELSE Snapshots[src]

\* the state vector dump_state(serialized=True) returns for a system
SavedVector(S) == _serialize(S, _dump_state(S))

\* the orders in which a process may iterate over a set of group names
Orders == {<<"chair1", "table1">>, <<"table1", "chair1">>}

\* cls.load_state(state, serialized=True) with the state vector saved from SavedSystem(src)
LoadState(src, order) ==
    /\ initialized
    /\ max_particle_idn.v <= MaxIdn
    /\ Commit(load_serialized(St, SavedVector(SavedSystem(src)), order), "load_state", "None", src)

\* the saved systems a state vector is loaded from
SerializedSources == {0, 1, 2, 3, 4}

\* the saved systems a state dictionary is loaded from
DictSources == {0, 1, 5}

\* cls.load_state(state, serialized=False) with the dictionary dumped from
\* SavedSystem(src)
LoadStateDict(src, order) ==
    /\ initialized
    /\ max_particle_idn.v <= MaxIdn
    /\ Commit(_load_state(St, _dump_state(SavedSystem(src)), order), "_load_state", "None", src)

\* the saved systems of the registry layer alone
RegistrySources == {0, 1, 2, 3}

\* MacroParticleSystem._load_state(state) with the dictionary
\* MacroParticleSystem._dump_state gave for SavedSystem(src)
MacroLoadState(src) ==
    /\ initialized
    /\ max_particle_idn.v <= MaxIdn
    /\ Commit(base_load_state(St, base_dump_state(SavedSystem(src))),
              "MacroParticleSystem._load_state", "None", src)

Next ==
    \/ Initialize
    \/ \E op \in Methods : CallBeforeInitialize(op)
    \/ \E idn \in {<<>>} \cup {<<i>> : i \in ExplicitIdns}, pl \in Placements :
           AddParticle(idn, pl)
    \/ \E p \in DictKeys(particles) \cup {particle_idn2name(0)} : RemoveParticle(p)
    \/ RemoveAllParticles
    \/ Reset
    \/ \E obj \in SceneObjects : CreateAttachmentGroup(obj)
    \/ \E g \in GroupNames : RemoveAttachmentGroup(g)
    \/ \E g \in GroupNames : RemoveAllGroupParticles(g)
    \/ \E g \in GroupNames : NumGroupParticles(g)
    \/ \E g \in GroupNames : UpdateParticleScaling(g)
    \/ \E g \in GroupNames : \E us \in UnitDraws(MaxRequest) : SampleScales(g, MaxRequest, us)
    \/ \E g \in DictKeys(_group_particles), n \in 1..MaxRequest :
           \E scales \in ScaleDraws(n) :
               GenerateGroupParticles(g, [i \in 1..n |-> Hit(HostOf(g), i)], scales)
    \/ \E g \in DictKeys(_group_particles), n \in 1..MaxRequest :
           \E draws \in ScaleDraws(n) :
               GenerateGroupParticlesDefault(g, [i \in 1..n |-> PoseA[1]], draws)
    \/ \E g \in DictKeys(_group_particles), n \in 1..MaxRequest, m \in {1, MaxRequest} :
           \E results \in Candidates(HostOf(g), n), draws \in ScaleDraws(n) :
               GenerateGroupParticlesOnObject(g, n, m, results, draws)
    \/ \E g \in GroupNames \ DictKeys(_group_particles) :
           \E draws \in ScaleDraws(1) :
               \/ GenerateGroupParticles(g, <<Hit(HostOf(g), 1)>>, draws)
               \/ GenerateGroupParticlesDefault(g, <<PoseA[1]>>, draws)
               \/ GenerateGroupParticlesOnObject(g, 1, 1, <<Hit(HostOf(g), 1)>>, draws)
    \/ \E src \in SerializedSources, order \in Orders : LoadState(src, order)

Spec == Init /\ [][Next]_vars

\* The calls of a client that never names an identifier and never loads a state.
NextAlloc ==
    \/ Initialize
    \/ \E pl \in Placements : AddParticle(<<>>, pl)
    \/ \E p \in DictKeys(particles) \cup {particle_idn2name(0)} : RemoveParticle(p)
    \/ Reset
    \/ \E obj \in SceneObjects : CreateAttachmentGroup(obj)
    \/ \E g \in DictKeys(_group_particles) : RemoveAttachmentGroup(g)
    \/ \E g \in DictKeys(_group_particles), n \in 1..MaxRequest :
           \E results \in Candidates(HostOf(g), n), draws \in ScaleDraws(n) :
               GenerateGroupParticlesOnObject(g, n, 1, results, draws)

SpecAlloc == Init /\ [][NextAlloc]_vars

\* The calls on a system of the registry layer alone, which has no groups.
NextRegistry ==
    \/ Initialize
    \/ \E idn \in {<<>>} \cup {<<i>> : i \in ExplicitIdns}, pl \in Placements :
           AddParticle(idn, pl)
    \/ \E p \in DictKeys(particles) \cup {particle_idn2name(0)} : RemoveParticle(p)
    \/ RemoveAllParticles
    \/ Reset
    \/ \E src \in RegistrySources : MacroLoadState(src)

SpecRegistry == Init /\ [][NextRegistry]_vars

\* The calls of a client who sets the scale limits and samples scales.
NextScales ==
    \/ Initialize
    \/ \E minimum \in ScaleLimits, maximum \in ScaleLimits : SetScaleLimits(minimum, maximum)
    \/ \E obj \in SceneObjects : CreateAttachmentGroup(obj)
    \/ \E g \in GroupNames, n \in 1..MaxRequest :
           \E us \in UnitDraws(n) : SampleScales(g, n, us)

SpecScales == Init /\ [][NextScales]_vars

\* a call op on the class cls that left the class attributes as R.attrs
ClassCall(R, op, cls) ==
    /\ class_attrs' = R.attrs
    /\ last' = [op |-> op, err |-> R.err, ret |-> cls, n |-> 0]
    /\ UNCHANGED <<initialized, particles, max_particle_idn, _group_particles,
                   _group_objects, particle_object, assigned, min_scale, max_scale, sampled,
                   created, physics, saved_states>>

\* The calls of a client of the two systems DustSystem and StainSystem, who may also
\* call initialize on their abstract base class.
NextClasses ==
    \/ \E cls \in ConcreteClasses \cup {"VisualParticleSystem"} :
           ClassCall(class_initialize(class_attrs, cls), "initialize", cls)
    \/ \E cls \in ConcreteClasses :
           /\ Lookup(class_attrs, cls, "max_particle_idn").v < MaxClassIdn
           /\ ClassCall(class_add_particle(class_attrs, cls), "add_particle", cls)
    \/ \E cls \in ConcreteClasses :
           ClassCall(class_remove_particle(class_attrs, cls, 0), "remove_particle", cls)
    \/ \E cls \in ConcreteClasses :
           ClassCall(class_reset(class_attrs, cls), "reset", cls)
    \/ \E cls \in ConcreteClasses :
           ClassCall(class_create_attachment_group(class_attrs, cls, "chair1"),
                     "create_attachment_group", cls)
    \/ \E cls \in ConcreteClasses :
           ClassCall(class_remove_attachment_group(class_attrs, cls, "chair1"),
                     "remove_attachment_group", cls)
    \/ \E cls \in ConcreteClasses :
           ClassCall(class_set_scale_limits(class_attrs, cls, <<2, 3, 4>>, <<>>),
                     "set_scale_limits", cls)
    \/ \E cls \in ConcreteClasses :
           ClassCall(class_load_state(class_attrs, cls, 1, 0), "_load_state", cls)

SpecClasses == Init /\ [][NextClasses]_vars

\* the attributes a caller of create overrides
OverrideChoices ==
    <<[name |-> "update_particle_scaling", v |-> Ref("stain_update_particle_scaling")],
      [name |-> "_N_PARTICLES_PER_GROUP", v |-> Num(5)],
      [name |-> "initialize", v |-> Ref("my_initialize")]>>

\* the keyword arguments a caller of create passes: some of the choices, in their order
Overrides == {SelectSeq(OverrideChoices, LAMBDA e : e.name \in ks) :
                 ks \in SUBSET {OverrideChoices[i].name : i \in DOMAIN OverrideChoices}}

\* VisualParticleSystem.create(particle_name, n_particles_per_group,
\* create_particle_template, min_scale, max_scale, **kwargs)
Create(particle_name, n_particles_per_group, minimum, maximum, kwargs) ==
    /\ created' = create(particle_name, n_particles_per_group, minimum, maximum, kwargs)
    /\ last' = [op |-> "create", err |-> "none", ret |-> SystemClassName(particle_name),
                n |-> n_particles_per_group]
    /\ UNCHANGED <<initialized, particles, max_particle_idn, _group_particles,
                   _group_objects, particle_object, assigned, min_scale, max_scale, sampled,
                   class_attrs, physics, saved_states>>

\* the calls of a client who makes a system class and uses it
NextCreate ==
    \/ \E n \in {1, 20}, minimum \in {<<>>, <<2, 3, 4>>}, maximum \in {<<>>, <<4, 4, 4>>},
          kwargs \in Overrides :
           Create("Dust", n, minimum, maximum, kwargs)
    \/ /\ created # NoClass
       /\ ClassCall(cm_initialize(class_attrs, created), "initialize", created.name)
    \/ /\ created # NoClass
       /\ Lookup(class_attrs, created.name, "max_particle_idn").v < MaxClassIdn
       /\ ClassCall(class_add_particle(class_attrs, created.name), "add_particle",
                    created.name)
    \/ /\ created # NoClass
       /\ ClassCall(class_create_attachment_group(class_attrs, created.name, "chair1"),
                    "create_attachment_group", created.name)

SpecCreate == Init /\ [][NextCreate]_vars

\* The calls of a client whose hosts include an object the scene registry does not
\* hold, and who loads state dictionaries.
NextHosts ==
    \/ Initialize
    \/ \E pl \in Placements : AddParticle(<<>>, pl)
    \/ \E p \in DictKeys(particles) \cup {particle_idn2name(0)} : RemoveParticle(p)
    \/ \E obj \in HostObjects : CreateAttachmentGroup(obj)
    \/ \E g \in DictKeys(_group_particles) : RemoveAttachmentGroup(g)
    \/ \E g \in DictKeys(_group_particles), n \in 1..MaxRequest :
           \E scales \in ScaleDraws(n) :
               GenerateGroupParticles(g, [i \in 1..n |-> Hit(HostOf(g), i)], scales)
    \/ \E src \in DictSources, order \in Orders : LoadStateDict(src, order)

SpecHosts == Init /\ [][NextHosts]_vars

\* the dimensions of a host bounding box: 0 to MaxHostDim in steps of HostDimStep
HostDims == {HostDimStep * k : k \in 0..(MaxHostDim \div HostDimStep)}

\* the aabb_extent the simulator reports for a host
HostExtents == {<<a, b, c>> : a \in HostDims, b \in {0, 50000}, c \in {50000, MaxHostDim}}

\* the aabb_extent of the stain template
StainExtent == <<3000, 2000, 100>>

\* StainSystem.update_particle_scaling(group) for a host whose aabb_extent is extent;
\* n is the median dimension
StainUpdateParticleScaling(group, extent) ==
    /\ initialized
    /\ CommitReturning(IF group \in DictKeys(_group_objects) THEN St ELSE Raise(St, "KeyError"),
                       "stain_update_particle_scaling", "bounds", np_median(extent),
                       stain_update_particle_scaling(extent, StainExtent))

\* The calls of a client of StainSystem who asks for the scale bounds of its groups.
NextStain ==
    \/ Initialize
    \/ \E obj \in SceneObjects : CreateAttachmentGroup(obj)
    \/ \E g \in DictKeys(_group_particles) : RemoveAttachmentGroup(g)
    \/ \E g \in GroupNames, extent \in HostExtents : StainUpdateParticleScaling(g, extent)

SpecStain == Init /\ [][NextStain]_vars

----------------------------------------------------------------------------
\* The object state Under of igibson/object_states/under.py.

\* the names bound in the module under.py: what it imports and the class it defines
ModuleGlobals ==
    {"embed", "igibson", "VerticalAdjacency", "PositionalValidationMemoizedObjectStateMixin",
     "BooleanState", "RelativeObjectState", "sample_kinematics", "restoreState", "Under"}

\* the physics states: the height of self.obj and the height of other
Physics == [obj : 0..MaxHeight, other : 0..MaxHeight]

\* Under._get_value(other): other is a positive vertical neighbour of self.obj and
\* not a negative one
_get_value(phys) == phys.other > phys.obj

\* What the calls of sample_kinematics of one call of _set_value do: the first
\* plan.failures attempts fail, by the sampler returning False ("sample"), by the
\* sampled pose not having the value ("value") or by the two in turn ("mixed"); the
\* attempt after them samples a pose that has the value.
AttemptPlans == [failures : 0..MaxAttempts, kind : {"sample", "value", "mixed"}]

\* sample_kinematics("under", self.obj, other, new_value) of attempt i: what it returns
\* and the physics state it leaves
sample_kinematics(plan, i, new_value) ==
    LET has == IF new_value THEN [obj |-> 0, other |-> 1] ELSE [obj |-> 1, other |-> 0]
        hasnot == IF new_value THEN [obj |-> 1, other |-> 0] ELSE [obj |-> 0, other |-> 1]
        k == IF plan.kind = "mixed" THEN (IF i % 2 = 1 THEN "sample" ELSE "value")
             ELSE plan.kind
    IN  IF i > plan.failures THEN [success |-> TRUE, physics |-> has]
        ELSE IF k = "sample" THEN [success |-> FALSE, physics |-> [obj |-> MaxHeight, other |-> 0]]
        ELSE [success |-> TRUE, physics |-> hasnot]

\* p.saveState(): the id of the new snapshot
saveState(saved) == CHOOSE id \in 0..Cardinality(saved) : id \notin {s.id : s \in saved}

\* the loop of _set_value from its attempt i, with the physics state phys and the
\* snapshot taken at entry: the physics state it leaves, the sampling_success it ends
\* with, and the number of attempts made
RECURSIVE attempt_loop(_, _, _, _, _)
attempt_loop(i, phys, snapshot, new_value, plan) ==
    IF i > MaxAttempts THEN [physics |-> phys, ret |-> FALSE, attempts |-> MaxAttempts]
    ELSE LET out == sample_kinematics(plan, i, new_value)
             sampling_success == out.success /\ (_get_value(out.physics) = new_value)
         IN  IF sampling_success
             THEN [physics |-> out.physics, ret |-> TRUE, attempts |-> i]
             ELSE attempt_loop(i + 1, snapshot, snapshot, new_value, plan)

\* Under._set_value(other, new_value). The name p is looked up in the globals of the
\* module when the first statement runs.
_set_value(phys, saved, new_value, plan) ==
    IF "p" \notin ModuleGlobals
    THEN [err |-> "NameError", physics |-> phys, saved |-> saved, ret |-> "None",
          attempts |-> 0]
    ELSE LET state_id == saveState(saved)
             held == saved \cup {[id |-> state_id, physics |-> phys]}
             R == attempt_loop(1, phys, phys, new_value, plan)
         IN  [err |-> "none", physics |-> R.physics,
              saved |-> {s \in held : s.id # state_id}, ret |-> R.ret,
              attempts |-> R.attempts]

\* the variables of the particle systems
system_vars == <<initialized, particles, max_particle_idn, _group_particles, _group_objects,
                 particle_object, assigned, min_scale, max_scale, sampled, class_attrs,
                 created>>

\* self.obj.states[Under].set_value(other, new_value); n is the number of attempts
SetValue(new_value, plan) ==
    LET R == _set_value(physics, saved_states, new_value, plan)
    IN  /\ physics' = R.physics
        /\ saved_states' = R.saved
        /\ last' = [op |-> "_set_value", err |-> R.err, ret |-> R.ret, n |-> R.attempts]
        /\ UNCHANGED system_vars

\* self.obj.states[Under].get_value(other)
GetValue ==
    /\ last' = [op |-> "_get_value", err |-> "none", ret |-> _get_value(physics), n |-> 0]
    /\ UNCHANGED <<system_vars, physics, saved_states>>

\* a step of the simulator moves the two objects
SimulatorStep(phys) ==
    /\ physics' = phys
    /\ last' = [op |-> "step", err |-> "none", ret |-> "None", n |-> 0]
    /\ UNCHANGED <<system_vars, saved_states>>

\* another client of the physics engine saves a snapshot
SaveState ==
    /\ Cardinality(saved_states) < MaxSaved
    /\ saved_states' = saved_states \cup {[id |-> saveState(saved_states), physics |-> physics]}
    /\ last' = [op |-> "saveState", err |-> "none", ret |-> saveState(saved_states), n |-> 0]
    /\ UNCHANGED <<system_vars, physics>>

\* another client of the physics engine restores a snapshot and removes it
RestoreState(s) ==
    /\ physics' = s.physics
    /\ saved_states' = saved_states \ {s}
    /\ last' = [op |-> "restoreState", err |-> "none", ret |-> "None", n |-> 0]
    /\ UNCHANGED system_vars

\* The calls of a client of the object state Under, with the simulator stepping and
\* snapshots being taken between them.
NextUnder ==
    \/ \E new_value \in BOOLEAN, plan \in AttemptPlans : SetValue(new_value, plan)
    \/ GetValue
    \/ \E phys \in Physics : SimulatorStep(phys)
    \/ SaveState
    \/ \E s \in saved_states : RestoreState(s)

SpecUnder == Init /\ [][NextUnder]_vars

\* one desired group of a call of _sync_particle_groups: its host (<<>> for None), the
\* identifiers of its particles and the links they are attached to
Desired(obj, particle_idns, link_names) ==
    [obj |-> obj, particle_idns |-> particle_idns, link_names |-> link_names]

\* the arguments _sync_particle_groups is called with
DesiredGroups ==
    <<<<>>,
      <<Desired(<<Chair1>>, <<1>>, <<"seat">>)>>,
      <<Desired(<<Chair1>>, <<2>>, <<"base_link">>)>>,
      <<Desired(<<Chair1>>, <<2, 0>>, <<"seat", "base_link">>)>>,
      <<Desired(<<Table1>>, <<1>>, <<"base_link">>),
        Desired(<<Chair1>>, <<0>>, <<"base_link">>)>>,
      <<Desired(<<>>, <<0>>, <<"base_link">>), Desired(<<Table1>>, <<2>>, <<"base_link">>)>>,
      <<Desired(<<Chair1>>, <<>>, <<>>), Desired(<<Table1>>, <<0, 1>>,
                                                 <<"base_link", "base_link">>)>>>>

\* cls._sync_particle_groups(group_objects, particle_idns, particle_attached_link_names)
\* with the k-th arguments
SyncParticleGroups(k, order) ==
    /\ initialized
    /\ max_particle_idn.v <= MaxIdn
    /\ Commit(_sync_particle_groups(St, DesiredGroups[k], order), "_sync_particle_groups",
              "None", k)

\* The calls of a client who synchronizes the groups with the groups it desires.
NextSync ==
    \/ Initialize
    \/ \E pl \in Placements : AddParticle(<<>>, pl)
    \/ \E obj \in SceneObjects : CreateAttachmentGroup(obj)
    \/ \E g \in DictKeys(_group_particles), n \in 1..MaxRequest :
           \E scales \in ScaleDraws(n) :
               GenerateGroupParticles(g, [i \in 1..n |-> Hit(HostOf(g), i)], scales)
    \/ \E k \in DOMAIN DesiredGroups, order \in Orders : SyncParticleGroups(k, order)

SpecSync == Init /\ [][NextSync]_vars

----------------------------------------------------------------------------
\* Properties.

\* the saved system the last load was given
LoadedFrom == SavedSystem(last'.n)

\* C1: a load of the state vector saved from a system without groups, into a system
\* without groups that tracks the same particles, raises nothing, leaves every particle
\* with the pose and scale saved for it, and max_particle_idn with the saved value.
C1_RegistryRoundTrip ==
    [][(/\ last'.op = "load_state"
        /\ _group_particles = <<>>
        /\ LoadedFrom._group_particles = <<>>
        /\ DictKeyList(LoadedFrom.particles) = DictKeyList(particles))
       => /\ last'.err = "none"
          /\ DictKeyList(particles') = DictKeyList(particles)
          /\ \A i \in DOMAIN particles' :
                 /\ particles'[i].pose = LoadedFrom.particles[i].pose
                 /\ particles'[i].scale = LoadedFrom.particles[i].scale
          /\ max_particle_idn'.v = LoadedFrom.max_particle_idn.v]_vars

\* C1 witness: the vector saved from SavedFreeBA was loaded and the two particles have
\* the poses and scales of SavedFreeBA.
C1_Witness ==
    /\ last.op = "load_state" /\ last.err = "none" /\ last.n = 2
    /\ _group_particles = <<>>
    /\ Len(particles) = 2
    /\ particles[1].pose = PoseB /\ particles[1].scale = ScaleB
    /\ particles[2].pose = PoseA /\ particles[2].scale = ScaleA
    /\ max_particle_idn.v = 1

\* the groups of a system, each with its host and the identifiers of its particles
GroupContents(gp, go) ==
    {[name |-> gp[g].name,
      host |-> DictGet(go, gp[g].name).obj,
      idns |-> {particle_name2idn(gp[g].parts[i]) : i \in DOMAIN gp[g].parts}] :
        g \in DOMAIN gp}

\* the names of the particles the groups hold
GroupedNames(gp) == UNION {Range(gp[g].parts) : g \in DOMAIN gp}

\* C2: a load of the state vector saved from a system with attachment groups, into a
\* system with no group and no particle, raises nothing and leaves exactly the saved
\* groups, each with its saved host and the saved particle identifiers, the tracked
\* particles being those of the groups, and max_particle_idn with the saved value.
C2_GroupRoundTrip ==
    [][(/\ last'.op = "load_state"
        /\ particles = <<>>
        /\ _group_particles = <<>>
        /\ LoadedFrom._group_particles # <<>>)
       => /\ last'.err = "none"
          /\ DictKeys(_group_objects') = DictKeys(_group_particles')
          /\ GroupContents(_group_particles', _group_objects')
                 = GroupContents(LoadedFrom._group_particles, LoadedFrom._group_objects)
          /\ DictKeys(particles') = GroupedNames(LoadedFrom._group_particles)
          /\ max_particle_idn'.v = LoadedFrom.max_particle_idn.v]_vars

\* C2 witness: the vector saved from SavedGroups was loaded; chair1 holds particle 1,
\* table1 holds particle 2 and max_particle_idn is 2.
C2_Witness ==
    /\ last.op = "load_state" /\ last.err = "none" /\ last.n = 4
    /\ DictKeys(_group_particles) = {"chair1", "table1"}
    /\ DictGet(_group_particles, "chair1").parts = <<particle_idn2name(1)>>
    /\ DictGet(_group_particles, "table1").parts = <<particle_idn2name(2)>>
    /\ DictGet(_group_objects, "chair1").obj = Chair1
    /\ DictGet(_group_objects, "table1").obj = Table1
    /\ DictKeys(particles) = {particle_idn2name(1), particle_idn2name(2)}
    /\ max_particle_idn.v = 2

\* C3: in a run of add_particle calls without idn (with removals between them), from
\* initialize() or reset() on, every call succeeds, the new particle gets the
\* identifier max_particle_idn + 1, which is larger than every tracked identifier,
\* max_particle_idn then equals it, and max_particle_idn never decreases in between.
C3_AllocationIncreases ==
    [][/\ last'.op = "add_particle"
          => /\ last'.err = "none"
             /\ Len(particles') = Len(particles) + 1
             /\ SubSeq(particles', 1, Len(particles)) = particles
             /\ particle_name2idn(Last(particles').name) = max_particle_idn.v + 1
             /\ max_particle_idn'.v = particle_name2idn(Last(particles').name)
             /\ \A i \in TrackedIdns(particles) : i < max_particle_idn'.v
       /\ last'.op \notin {"reset", "initialize"}
          => max_particle_idn'.v >= max_particle_idn.v]_vars

\* C3 witness: after particles 0 and 1 were added and 0 removed, a third add_particle
\* allocated 2.
C3_Witness ==
    /\ last.op = "add_particle" /\ last.err = "none"
    /\ DictKeyList(particles) = <<particle_idn2name(1), particle_idn2name(2)>>
    /\ max_particle_idn = [t |-> "int", v |-> 2]

\* the identifiers that a step gives to particles that were not tracked before it
NewIdns == TrackedIdns(particles') \ TrackedIdns(particles)

\* C4: no call other than reset() (or initialize()) gives a particle an identifier that
\* a particle was already given since the last reset()/initialize().
C4_NeverReused ==
    [][last'.op \notin {"reset", "initialize"} => NewIdns \cap assigned = {}]_vars

\* C5: the name of every identifier parses back to the identifier (for the identifiers
\* up to MaxNamedIdn and for every identifier given to a particle), the name of every
\* tracked particle is the name of its identifier, and no two tracked particles have
\* the same name.
C5_NamesInvertibleAndUnique ==
    /\ \A id \in (0..MaxNamedIdn) \cup assigned :
           /\ particle_name2idn_ok(particle_idn2name(id))
           /\ particle_name2idn(particle_idn2name(id)) = id
    /\ \A i \in DOMAIN particles :
           /\ particle_name2idn_ok(particles[i].name)
           /\ particle_idn2name(particle_name2idn(particles[i].name)) = particles[i].name
    /\ \A i, j \in DOMAIN particles : i # j => particles[i].name # particles[j].name

\* C5 witness: two particles are tracked, with identifiers 0 and 1 and the names formed
\* from them.
C5_Witness ==
    /\ Len(particles) = 2
    /\ particles[1].name = particle_idn2name(0)
    /\ particles[2].name = particle_idn2name(1)
    /\ particle_name2idn(particles[2].name) = 1
    /\ particles[1].name # particles[2].name

GroupCall(g) ==
    \/ RemoveAttachmentGroup(g)
    \/ RemoveAllGroupParticles(g)
    \/ NumGroupParticles(g)
    \/ UpdateParticleScaling(g)
    \/ \E us \in UnitDraws(MaxRequest) : SampleScales(g, MaxRequest, us)
    \/ \E draws \in ScaleDraws(1) :
           \/ GenerateGroupParticles(g, <<Hit(HostOf(g), 1)>>, draws)
           \/ GenerateGroupParticlesDefault(g, <<PoseA[1]>>, draws)
           \/ GenerateGroupParticlesOnObject(g, 1, 1, <<Hit(HostOf(g), 1)>>, draws)

\* C7: every group operation other than create_attachment_group, called for a group
\* that does not exist, raises ValueError and changes nothing of the system.
C7_MissingGroupRaises ==
    [][\A g \in GroupNames \ DictKeys(_group_particles) :
          GroupCall(g)
          => /\ last'.err = "ValueError"
             /\ UNCHANGED <<particles, max_particle_idn, _group_particles, _group_objects,
                            particle_object>>]_vars

\* C8: generate_group_particles_on_object on an existing group returns (raises
\* nothing), returns True exactly when the samples that have a position are at least
\* min_particles_for_success, and after it returned True the group holds as many
\* particles as samples have a position, whatever it held before.
C8_OnObjectSuccess ==
    [][last'.op = "generate_group_particles_on_object"
       => \A g \in DictKeys(_group_particles), n \in 1..MaxRequest, m \in {1, MaxRequest} :
              \A results \in Candidates(HostOf(g), n), draws \in ScaleDraws(n) :
                  GenerateGroupParticlesOnObject(g, n, m, results, draws)
                  => /\ last'.err = "none"
                     /\ (last'.ret = "True") <=> (Len(Surviving(results)) >= m)
                     /\ last'.ret = "True"
                        => num_group_particles(St', g) = Len(Surviving(results))]_vars

\* C9: generate_group_particles_on_object on an existing group, when fewer samples have
\* a position than min_particles_for_success, raises nothing and returns False; it
\* allocates no identifier and adds no particle, the group exists and is empty, the
\* particles it held are gone and every other particle and group is as before.
C9_OnObjectFailure ==
    [][(last'.op = "generate_group_particles_on_object" /\ last'.ret # "True")
       => \A g \in DictKeys(_group_particles), n \in 1..MaxRequest, m \in {1, MaxRequest} :
              \A results \in Candidates(HostOf(g), n), draws \in ScaleDraws(n) :
                  (/\ Len(Surviving(results)) < m
                   /\ Len(Surviving(results)) = last'.n
                   /\ GenerateGroupParticlesOnObject(g, n, m, results, draws))
                  => LET held == DictGet(_group_particles, g).parts IN
                     /\ last'.err = "none"
                     /\ last'.ret = "False"
                     /\ max_particle_idn' = max_particle_idn
                     /\ particles' = SelectSeq(particles, LAMBDA p : p.name \notin Range(held))
                     /\ g \in DictKeys(_group_particles')
                     /\ num_group_particles(St', g) = 0
                     /\ _group_particles' =
                            DictSet(_group_particles, [name |-> g, parts |-> <<>>])
                     /\ _group_objects' = _group_objects]_vars

\* C9 witness: the call returned False for samples without any position; the group is
\* empty and identifier 0, which the system gave to a particle, is tracked no more.
C9_Witness ==
    /\ last.op = "generate_group_particles_on_object"
    /\ last.err = "none" /\ last.ret = "False" /\ last.n = 0
    /\ \E g \in DOMAIN _group_particles : _group_particles[g].parts = <<>>
    /\ 0 \in assigned
    /\ particles = <<>>

\* C10: add_particle whose derived name, from the explicit idn or from
\* max_particle_idn + 1, is the name of a tracked particle raises AssertionError and
\* leaves the particles, the groups and max_particle_idn as they were.
C10_DuplicateName ==
    [][last'.op = "add_particle"
       => \A idn \in {<<>>} \cup {<<i>> : i \in ExplicitIdns}, pl \in Placements :
              (/\ DerivedIdn(St, idn).t = "int"
               /\ particle_idn2name(DerivedIdn(St, idn).v) \in DictKeys(particles)
               /\ AddParticle(idn, pl))
              => /\ last'.err = "AssertionError"
                 /\ UNCHANGED <<particles, max_particle_idn, _group_particles,
                                _group_objects, particle_object>>]_vars

\* C10 witness: add_particle raised while max_particle_idn is the int 0 and particle 1,
\* the next identifier, is tracked.
C10_Witness ==
    /\ last.op = "add_particle" /\ last.err = "AssertionError"
    /\ max_particle_idn = [t |-> "int", v |-> 0]
    /\ particle_idn2name(1) \in DictKeys(particles)

\* C11: remove_particle of a name that is not tracked raises AssertionError and changes
\* nothing; of a tracked name it raises nothing, takes exactly that particle out of
\* cls.particles and out of the group that holds it, and leaves every other particle,
\* the groups that exist, their hosts and max_particle_idn as they were.
C11_RemoveParticle ==
    [][last'.op = "remove_particle"
       => \A name \in DictKeys(particles) \cup {particle_idn2name(0)} :
              RemoveParticle(name)
              => IF name \notin DictKeys(particles)
                 THEN /\ last'.err = "AssertionError"
                      /\ UNCHANGED <<particles, max_particle_idn, _group_particles,
                                     _group_objects, particle_object>>
                 ELSE /\ last'.err = "none"
                      /\ particles' = SelectSeq(particles, LAMBDA p : p.name # name)
                      /\ Len(particles') = Len(particles) - 1
                      /\ _group_particles' =
                             [g \in DOMAIN _group_particles |->
                                 [_group_particles[g] EXCEPT
                                     !.parts = SelectSeq(@, LAMBDA q : q # name)]]
                      /\ UNCHANGED <<max_particle_idn, _group_objects, particle_object>>]_vars

\* C11 witness: a particle that a group held was removed; the group is still there,
\* empty, and the other particle is still tracked.
C11_Witness ==
    /\ last.op = "remove_particle" /\ last.err = "none" /\ last.n = 1
    /\ Len(particles) = 1
    /\ \E g \in DOMAIN _group_particles : _group_particles[g].parts = <<>>

\* C12: create_attachment_group(obj) raises AssertionError and changes nothing when a
\* group of the name of obj exists, whichever object that group is bound to; otherwise
\* it raises nothing, adds an empty group of that name bound to obj after the groups
\* that exist, returns the name, and leaves the particles and max_particle_idn as they
\* were.
C12_CreateAttachmentGroup ==
    [][last'.op = "create_attachment_group"
       => \A obj \in HostObjects :
              CreateAttachmentGroup(obj)
              => IF get_group_name(obj) \in DictKeys(_group_particles)
                 THEN /\ last'.err = "AssertionError"
                      /\ UNCHANGED <<particles, max_particle_idn, _group_particles,
                                     _group_objects, particle_object>>
                 ELSE /\ last'.err = "none"
                      /\ last'.ret = obj.name
                      /\ _group_particles' =
                             Append(_group_particles, [name |-> obj.name, parts |-> <<>>])
                      /\ _group_objects' =
                             Append(_group_objects, [name |-> obj.name, obj |-> obj])
                      /\ UNCHANGED <<particles, max_particle_idn, particle_object>>]_vars

\* C12 witness: create_attachment_group raised while group chair1, bound to Chair1,
\* holds a particle.
C12_Witness ==
    /\ last.op = "create_attachment_group" /\ last.err = "AssertionError"
    /\ "chair1" \in DictKeys(_group_particles)
    /\ DictGet(_group_objects, "chair1").obj = Chair1
    /\ Len(DictGet(_group_particles, "chair1").parts) = 1

\* C13: a call of any method other than initialize, made before initialize, raises an
\* exception and leaves the particles and the groups as they were.
C13_BeforeInitializeRaises ==
    [][~initialized /\ last'.op # "initialize"
       => /\ last'.err # "none"
          /\ UNCHANGED <<particles, _group_particles, _group_objects>>]_vars

\* C14: MacroParticleSystem._load_state with a state whose n_particles differs from
\* the number of tracked particles raises AssertionError and leaves max_particle_idn,
\* the particles with their poses and scales, and the template as they were.
C14_RegistryLoadMismatch ==
    [][last'.op = "MacroParticleSystem._load_state"
       => \A src \in RegistrySources :
              (/\ MacroLoadState(src)
               /\ Len(particles) # Len(SavedSystem(src).particles))
              => /\ last'.err = "AssertionError"
                 /\ UNCHANGED <<particles, max_particle_idn, particle_object,
                                _group_particles, _group_objects>>]_vars

\* C14 witness: the load of the state of SavedFreeAB, which has two particles and
\* max_particle_idn 1, was refused while one particle is tracked and max_particle_idn
\* is 0.
C14_Witness ==
    /\ last.op = "MacroParticleSystem._load_state" /\ last.err = "AssertionError"
    /\ last.n = 1
    /\ Len(particles) = 1
    /\ max_particle_idn.v = 0

\* C15: VisualParticleSystem._load_state raises AssertionError whenever the number of
\* particles tracked after _sync_particle_groups differs from the n_particles of the
\* state, and then the particles are as the synchronisation left them, so that no
\* pose or scale of the state is restored.
C15_GroupLoadMismatch ==
    [][last'.op = "_load_state"
       => \A src \in DictSources, order \in Orders :
              LoadStateDict(src, order)
              => LET state == _dump_state(SavedSystem(src))
                     synced == _sync_particle_groups(
                                   [St EXCEPT !.max_particle_idn = state.base.max_particle_idn],
                                   [i \in DOMAIN state.groups |->
                                       [obj |-> object_registry_uuid(
                                                    state.groups[i].particle_attached_obj_uuid),
                                        particle_idns |-> state.groups[i].particle_idns,
                                        link_names |->
                                            state.groups[i].particle_attached_link_names]],
                                   order)
                 IN  (Ok(synced) /\ Len(synced.particles) # state.base.n_particles)
                     => /\ last'.err = "AssertionError"
                        /\ particles' = synced.particles
                        /\ particle_object' = particle_object]_vars

\* C15 witness: the load of the state of SavedTwin, whose only group has a host the
\* scene does not hold, was refused while two particles in no group are tracked.
C15_Witness ==
    /\ last.op = "_load_state" /\ last.err = "AssertionError" /\ last.n = 5
    /\ Len(particles) = 2
    /\ _group_particles = <<>>

\* C16: after a reset() that raised nothing no particle is tracked, no group exists,
\* max_particle_idn is -1 and the next identifier allocated is 0.
C16_ResetEmptiesAll ==
    [][(last'.op = "reset" /\ last'.err = "none")
       => /\ particles' = <<>>
          /\ _group_particles' = <<>>
          /\ _group_objects' = <<>>
          /\ max_particle_idn'.v = -1
          /\ get_next_particle_unique_idn(St').v = 0]_vars

\* C17: after a remove_all_particles() that raised nothing, the set of group names
\* is empty and both group mappings are empty.
C17_RemoveAllParticlesPurgesGroups ==
    [][(last'.op = "remove_all_particles" /\ last'.err = "none")
       => /\ groups(St') = {}
          /\ _group_particles' = <<>>
          /\ _group_objects' = <<>>]_vars

C19_SampledScalesInBounds ==
    [][last'.op = "sample_scales"
       => \A g \in DictKeys(_group_objects), n \in 1..MaxRequest :
              \A us \in UnitDraws(n) :
                  (/\ SampleScales(g, n, us)
                   /\ \A k \in 1..3 : 0 < min_scale[k] /\ min_scale[k] <= max_scale[k])
                  => LET avg == avg_scale(DictGet(_group_objects, g).obj)
                     IN  /\ last'.err = "none"
                         /\ Len(sampled') = n
                         /\ \A i \in 1..n :
                                /\ Len(sampled'[i]) = 3
                                /\ \A k \in 1..3 :
                                       /\ Leq(Div(min_scale[k], avg), sampled'[i][k])
                                       /\ Leq(sampled'[i][k], Div(max_scale[k], avg))
                         /\ UNCHANGED <<min_scale, max_scale>>]_vars

\* C19 witness: sample_scales returned two triples for the group of table1, whose
\* average scale is 2, drawn between the bounds (2, 3, 4) and (4, 4, 4), the second
\* above the lower bound on its first axis.
C19_Witness ==
    /\ last.op = "sample_scales" /\ last.err = "none" /\ last.n = 2
    /\ min_scale = <<2, 3, 4>> /\ max_scale = <<4, 4, 4>>
    /\ Len(sampled) = 2
    /\ sampled[2][1] = Div(3, 2)
    /\ sampled[1][3] = Div(4, avg_scale(Table1))

\* C20: generate_group_particles places each particle at its given position when the
\* class clips into objects, and otherwise, as by default, at the given position
\* shifted along the z axis of its orientation by half the height of its local
\* bounding box.
C20_SurfaceOffset ==
    [][(last'.op = "generate_group_particles" /\ last'.err = "none")
       => \A g \in DictKeys(_group_particles), n \in 1..MaxRequest :
              \A scales \in ScaleDraws(n) :
                  LET placed == [i \in 1..n |-> Hit(HostOf(g), i)]
                  IN  GenerateGroupParticles(g, placed, scales)
                      => \A i \in 1..n :
                             LET given == placed[i].position[1]
                                 normal == Normal(placed[i].quaternion)
                                 half == Mul3(TemplateExtent, scales[i])[3] \div 2
                                 made == particles'[Len(particles) + i].pose[1]
                             IN  made = IF _CLIP_INTO_OBJECTS THEN given
                                        ELSE [k \in 1..3 |-> given[k] + normal[k] * half]]_vars

\* the documented layout of the state vector of system S: n_groups; for each group its
\* host uuid, its particle count k, k identifiers and k link indices; then
\* max_particle_idn, n_particles, n poses of 7, n scales of 3 and, when S has a
\* template, the 7 numbers of its pose and the 3 of its scale
VectorLayout(S) ==
    LET v == _serialize(S, _dump_state(S))
        b == base_serialize(base_dump_state(S))
        n == Len(S.particles)
        count(g) == Len(S._group_particles[g].parts)
        start(g) == 1 + SumSeq([h \in 1..(g - 1) |-> 2 + 2 * count(h)])
        head == start(Len(S._group_particles) + 1)
        block == IF S.particle_object = <<>> THEN 0 ELSE 10
    IN  /\ Len(v) = state_size(S)
        /\ Len(b) = base_state_size(S)
        /\ Len(b) = 2 + 10 * n + block
        /\ Len(v) = head + Len(b)
        /\ Slice(v, head, Len(v)) = b
        /\ At(v, 0) = Len(S._group_particles)
        /\ \A g \in DOMAIN S._group_particles :
               /\ At(v, start(g)) = S._group_objects[g].obj.uuid
               /\ At(v, start(g) + 1) = count(g)
               /\ \A i \in 1..count(g) :
                      /\ particle_idn2name(At(v, start(g) + 1 + i)) =
                             S._group_particles[g].parts[i]
                      /\ S._group_objects[g].obj.links[At(v, start(g) + 1 + count(g) + i) + 1] =
                             AttachedLinkName(DictGet(S.particles, S._group_particles[g].parts[i]))
        /\ At(b, 0) = S.max_particle_idn.v
        /\ At(b, 1) = n
        /\ \A i \in 1..n :
               /\ Slice(b, 2 + 7 * (i - 1), 2 + 7 * i) =
                      S.particles[i].pose[1] \o S.particles[i].pose[2]
               /\ Slice(b, 2 + 7 * n + 3 * (i - 1), 2 + 7 * n + 3 * i) = S.particles[i].scale
        /\ S.particle_object # <<>>
               => Slice(b, 2 + 10 * n, 12 + 10 * n) =
                      S.particle_object[1].pose[1] \o S.particle_object[1].pose[2]
                      \o S.particle_object[1].scale

C22_NoSharedState ==
    [][\A d \in ConcreteClasses :
           (last'.ret \in Classes \ {d} /\ ClassInitialized(class_attrs, d))
           => ClassView(class_attrs', d) = ClassView(class_attrs, d)]_vars

\* C22 witness: DustSystem has added a particle while StainSystem, initialized, tracks
\* a particle, has a group and has its own scale bounds.
C22_Witness ==
    /\ last.op = "add_particle" /\ last.ret = "DustSystem" /\ last.err = "none"
    /\ ClassInitialized(class_attrs, "StainSystem")
    /\ Lookup(class_attrs, "StainSystem", "particles").v = {0}
    /\ Lookup(class_attrs, "StainSystem", "_group_particles").v = {"chair1"}
    /\ Lookup(class_attrs, "StainSystem", "min_scale").v = <<2, 3, 4>>
    /\ Lookup(class_attrs, "DustSystem", "particles").v = {0, 1}

\* the names of the attributes create sets itself
CreateSets == {"_register_system", "_N_PARTICLES_PER_GROUP", "initialize",
               "_create_particle_template"}

\* what C23 says of the class create returns, for the overrides named in names
CreatedCarries(names) ==
    \A n \in {1, 20}, minimum \in {<<>>, <<2, 3, 4>>}, maximum \in {<<>>, <<4, 4, 4>>},
       kwargs \in Overrides :
        (/\ last'.n = n /\ created'.min_scale = minimum /\ created'.max_scale = maximum
         /\ Create("Dust", n, minimum, maximum, kwargs))
        => /\ _register_system(created')
           /\ n_particles_or_default(created', <<>>) = n
           /\ \A i \in DOMAIN kwargs :
                  kwargs[i].name \in names
                  => /\ kwargs[i].name \in DictKeys(created'.dict)
                     /\ DictGet(created'.dict, kwargs[i].name).v = kwargs[i].v

\* what C23 says of the created class after its initialize
CreatedInitialized ==
    (/\ created # NoClass
     /\ ClassCall(cm_initialize(class_attrs, created), "initialize", created.name))
    => /\ last'.err = "none"
       /\ Lookup(class_attrs', created.name, "min_scale").v =
              (IF created.min_scale = <<>> THEN <<1, 1, 1>> ELSE created.min_scale)
       /\ Lookup(class_attrs', created.name, "max_scale").v =
              (IF created.max_scale = <<>> THEN <<1, 1, 1>> ELSE created.max_scale)
       /\ Lookup(class_attrs', created.name, "particles") = Attr({})
       /\ Lookup(class_attrs', created.name, "_group_particles") = Attr({})
       /\ Lookup(class_attrs', created.name, "_group_objects") = Attr({})

\* C23 as stated: the class create returns is registrable, has the supplied count as
\* its default number of particles per group, and carries every supplied override;
\* after initialize its scale bounds are the supplied ones, (1, 1, 1) where none was
\* supplied, and its particles and groups are empty.
C23_CreateAsStated ==
    [][/\ last'.op = "create"
          => CreatedCarries({OverrideChoices[i].name : i \in DOMAIN OverrideChoices})
       /\ last'.op = "initialize" => CreatedInitialized]_vars

\* C23 amended: as stated, for the supplied overrides that are not named
\* _register_system, _N_PARTICLES_PER_GROUP, initialize or _create_particle_template,
\* which create sets itself.
C23_Create ==
    [][/\ last'.op = "create"
          => CreatedCarries({OverrideChoices[i].name : i \in DOMAIN OverrideChoices}
                            \ CreateSets)
       /\ last'.op = "initialize" => CreatedInitialized]_vars

\* C23 witness: a class created with 20 particles per group, both scale bounds and an
\* override of update_particle_scaling has been initialized again after it had tracked a particle.
C23_Witness ==
    /\ last.op = "initialize" /\ last.err = "none" /\ last.ret = created.name
    /\ n_particles_or_default(created, <<>>) = 20
    /\ created.min_scale = <<2, 3, 4>> /\ created.max_scale = <<4, 4, 4>>
    /\ "update_particle_scaling" \in DictKeys(created.dict)
    /\ DictGet(created.dict, "update_particle_scaling").v = Ref("stain_update_particle_scaling")
    /\ Lookup(class_attrs, created.name, "min_scale").v = <<2, 3, 4>>
    /\ Lookup(class_attrs, created.name, "max_particle_idn").v = -1
    /\ Lookup(class_attrs, created.name, "particles").v = {}

\* the names of the hosts a call of _sync_particle_groups desires
DesiredNames(infos) ==
    {infos[i].obj[1].name : i \in {j \in DOMAIN infos : infos[j].obj # <<>>}}

\* the particles of a group
Parts(S, g) == DictGet(S._group_particles, g).parts

\* the groups the call of _sync_particle_groups with infos rebuilds: those desired and
\* not present, and those present and desired with another number of particles
Rebuilt(S, infos) ==
    {g \in DesiredNames(infos) :
        g \notin groups(S) \/ Len(Parts(S, g)) # Len(InfoOf(infos, g).particle_idns)}

\* C25: after a call of _sync_particle_groups that returns, the group names are the
\* names of the desired hosts that are not None; every group that was present and is
\* not desired is gone, and each of its particles is untracked or was added again to a
\* rebuilt group; every desired group that was not present exists.
C25_SyncGroupNames ==
    [][(last'.op = "_sync_particle_groups" /\ last'.err = "none")
       => LET infos == DesiredGroups[last'.n] IN
          /\ groups(St') = DesiredNames(infos)
          /\ DictKeys(_group_objects') = DesiredNames(infos)
          /\ \A g \in groups(St) \ DesiredNames(infos) :
                 /\ g \notin groups(St')
                 /\ \A p \in Range(Parts(St, g)) :
                        \/ p \notin DictKeys(particles')
                        \/ \E h \in Rebuilt(St, infos) : p \in Range(Parts(St', h))
          /\ \A g \in DesiredNames(infos) \ groups(St) : g \in groups(St')]_vars

\* C25 witness: a call with a None host and table1 desired returned in a system where
\* chair1 held a particle: chair1 and its particle are gone, table1 exists.
C25_Witness ==
    /\ last.op = "_sync_particle_groups" /\ last.err = "none" /\ last.n = 6
    /\ groups(St) = {"table1"}
    /\ DictKeys(particles) = {particle_idn2name(2)}

\* the particle add_particle makes for identifier idn on the link of obj: a copy of
\* the template under the path of the link
Readded(S, obj, link_name, idn) ==
    [name |-> particle_idn2name(idn),
     prim_path |-> Append(Append(obj.prim_path, link_name), particle_idn2name(idn)),
     pose |-> S.particle_object[1].pose,
     scale |-> S.particle_object[1].scale]

\* C26: after a call of _sync_particle_groups that returns, every group it created, or
\* deleted and created again because the number of its particles differed, is the
\* group of the scene object of that name and holds exactly the particles of the
\* desired identifiers, in the desired order, each one newly added under its desired
\* identifier on its desired link; no particle the group held before is still tracked
\* unless a rebuilt group holds a new particle of that name.
C26_SyncRebuildsGroups ==
    [][(last'.op = "_sync_particle_groups" /\ last'.err = "none")
       => LET infos == DesiredGroups[last'.n] IN
          \A g \in Rebuilt(St, infos) :
              LET info == InfoOf(infos, g)
                  obj == object_registry_name(g)[1]
              IN  /\ DictGet(_group_objects', g).obj = obj
                  /\ Parts(St', g) = [i \in DOMAIN info.particle_idns |->
                                         particle_idn2name(info.particle_idns[i])]
                  /\ \A i \in DOMAIN info.particle_idns :
                         /\ Parts(St', g)[i] \in DictKeys(particles')
                         /\ DictGet(particles', Parts(St', g)[i]) =
                                Readded(St, obj, info.link_names[i], info.particle_idns[i])
                  /\ g \in groups(St)
                     => \A p \in Range(Parts(St, g)) :
                            \/ p \notin DictKeys(particles')
                            \/ \E h \in Rebuilt(St, infos) : p \in Range(Parts(St', h))]_vars

\* C26 witness: chair1 held the one particle 0 placed at PoseA and the call desired
\* the identifiers 2, 0 for it: it now holds the new particles 2 and 0, in that order.
C26_Witness ==
    /\ last.op = "_sync_particle_groups" /\ last.err = "none" /\ last.n = 4
    /\ Parts(St, "chair1") = <<particle_idn2name(2), particle_idn2name(0)>>
    /\ DictGet(particles, particle_idn2name(0)).pose = TemplatePrim.pose
    /\ max_particle_idn.v = 2

\* C27: a call of _sync_particle_groups, whether it returns or raises, leaves every
\* group that is present and desired with the number of particles it holds as it was:
\* the same host, the same particle names in the same order, and each of these
\* particles tracked with the path, pose and scale it had, whatever the desired
\* identifiers are.
C27_SyncKeepsEqualCount ==
    [][last'.op = "_sync_particle_groups"
       => LET infos == DesiredGroups[last'.n] IN
          \A g \in (groups(St) \cap DesiredNames(infos)) \ Rebuilt(St, infos) :
              /\ g \in groups(St')
              /\ Parts(St', g) = Parts(St, g)
              /\ DictGet(_group_objects', g) = DictGet(_group_objects, g)
              /\ \A p \in Range(Parts(St, g)) :
                     /\ p \in DictKeys(particles')
                     /\ DictGet(particles', p) = DictGet(particles, p)]_vars

\* C27 witness: chair1 held the one particle 0 and the call desired the one
\* identifier 2 for it: chair1 still holds particle 0, placed where it was.
C27_Witness ==
    /\ last.op = "_sync_particle_groups" /\ last.err = "none" /\ last.n = 3
    /\ Parts(St, "chair1") = <<particle_idn2name(0)>>
    /\ DictGet(particles, particle_idn2name(0)).pose = PoseA
    /\ particle_idn2name(2) \notin DictKeys(particles)

\* the system as the _sync_particle_groups of a _load_state of state leaves it
SyncedFor(state, order) ==
    _sync_particle_groups(
        [St EXCEPT !.max_particle_idn = state.base.max_particle_idn],
        [i \in DOMAIN state.groups |->
            [obj |-> object_registry_uuid(state.groups[i].particle_attached_obj_uuid),
             particle_idns |-> state.groups[i].particle_idns,
             link_names |-> state.groups[i].particle_attached_link_names]],
        order)

\* a _load_state leaves the particles as its synchronization left them unless the
\* synchronization returned, the groups are those named in names(state) and the
\* number of tracked particles is the n_particles of the state
RestoresAfterSync(names(_)) ==
    \A src \in DictSources, order \in Orders :
        LoadStateDict(src, order)
        => LET state == _dump_state(SavedSystem(src))
               synced == SyncedFor(state, order)
           IN  /\ _group_particles' = synced._group_particles
               /\ _group_objects' = synced._group_objects
               /\ DictKeyList(particles') = DictKeyList(synced.particles)
               /\ particles' # synced.particles
                  => /\ Ok(synced)
                     /\ groups(synced) = names(state)
                     /\ n_particles(synced) = state.base.n_particles

\* the names of the groups of a dumped state
SavedNames(state) == {state.groups[i].name : i \in DOMAIN state.groups}

\* the names of the groups of a dumped state whose host the scene holds
ResolvedNames(state) ==
    {state.groups[i].name :
        i \in {j \in DOMAIN state.groups :
                  object_registry_uuid(state.groups[j].particle_attached_obj_uuid) # <<>>}}

\* C28 as stated: in every _load_state the groups and the tracked particles are those
\* _sync_particle_groups left, and a pose or scale is written only when the
\* synchronization has returned, the groups are the groups of the state being loaded
\* and the number of tracked particles is the n_particles of the state.
C28_RestoreAfterSyncAsStated ==
    [][last'.op = "_load_state" => RestoresAfterSync(SavedNames)]_vars

\* C28 amended: as stated, with the groups of the state whose host the scene holds in
\* place of the groups of the state.
C28_RestoreAfterSync ==
    [][last'.op = "_load_state" => RestoresAfterSync(ResolvedNames)]_vars

\* C28 witness: the state of SavedTwin, whose group has a host the scene does not hold,
\* was loaded into a system that tracks particle 1 in no group: the synchronization
\* left no group, one particle is tracked as one was saved, and particle 1 has the
\* saved pose.
C28_Witness ==
    /\ last.op = "_load_state" /\ last.err = "none" /\ last.n = 5
    /\ _group_particles = <<>>
    /\ DictKeyList(particles) = <<particle_idn2name(1)>>
    /\ particles[1].pose = SavedTwin.particles[1].pose
    /\ max_particle_idn.v = 0

\* C29: MacroParticleSystem._deserialize, called for a system with a template object,
\* decodes the 10 numbers of the template after the 2 + 10 n numbers of the n saved
\* particles and reports 2 + 10 n + 10 numbers read, for every n and whatever number
\* of particles the system tracks; for a system without a template object it decodes
\* no template and reports 2 + 10 n.
C29_TemplateBlockDecoded ==
    initialized
    => \A i \in DOMAIN Snapshots :
           LET n == n_particles(Snapshots[i])
               D == base_deserialize(state_size(St),
                                     base_serialize(base_dump_state(Snapshots[i])))
           IN  IF particle_object # <<>>
               THEN /\ D.idx = 2 + 10 * n + 10
                    /\ D.state.template_pose = <<Snapshots[i].particle_object[1].pose>>
                    /\ D.state.template_scale = <<Snapshots[i].particle_object[1].scale>>
               ELSE /\ D.idx = 2 + 10 * n
                    /\ D.state.template_pose = <<>>

\* C30: in every state of an initialized system no particle name is listed twice,
\* neither in two groups nor in one; every particle a group lists is a tracked
\* particle; and _group_particles and _group_objects have the same group names.
C30_GroupMembership ==
    initialized
    => /\ \A g, h \in DOMAIN _group_particles :
              g # h => Range(_group_particles[g].parts) \cap Range(_group_particles[h].parts) = {}
       /\ \A g \in DOMAIN _group_particles :
              /\ Cardinality(Range(_group_particles[g].parts)) = Len(_group_particles[g].parts)
              /\ Range(_group_particles[g].parts) \subseteq DictKeys(particles)
       /\ DictKeys(_group_particles) = DictKeys(_group_objects)
       /\ Len(_group_particles) = Len(_group_objects)

\* C30 witness: chair1 and table1 each hold one particle after a particle was generated
\* on the second of them.
C30_Witness ==
    /\ initialized
    /\ last.op = "generate_group_particles" /\ last.err = "none"
    /\ groups(St) = {"chair1", "table1"}
    /\ \A g \in DOMAIN _group_particles : Len(_group_particles[g].parts) = 1
    /\ Len(particles) = 2

\* C31: in every state max_particle_idn is at least the identifier of every tracked
\* particle, so that the name add_particle derives without an explicit idn, from
\* max_particle_idn + 1, is the name of no tracked particle.
C31_HighWaterMark ==
    initialized
    => /\ \A i \in TrackedIdns(particles) : i <= max_particle_idn.v
       /\ max_particle_idn.t = "int"
          => particle_idn2name(get_next_particle_unique_idn(St).v) \notin DictKeys(particles)

\* C32: after a load_state of a serialized state that raised nothing,
\* max_particle_idn is an int with the saved value, and an add_particle without idn
\* that follows raises nothing and tracks a new particle named after the saved
\* max_particle_idn + 1.
C32_UsableAfterLoad ==
    [][/\ (last'.op = "load_state" /\ last'.err = "none")
          => /\ max_particle_idn'.t = "int"
             /\ max_particle_idn'.v = SavedSystem(last'.n).max_particle_idn.v
       /\ (last.op = "load_state" /\ last.err = "none" /\ last'.op = "add_particle")
          => \A pl \in Placements :
                 AddParticle(<<>>, pl)
                 => /\ last'.err = "none"
                    /\ DictKeys(particles') =
                           DictKeys(particles)
                           \cup {particle_idn2name(max_particle_idn.v + 1)}]_vars

\* C33: every particle a generate_group_particles_on_object makes has the scale that
\* was drawn for the sample it was placed by: the sampler places the odd samples at
\* PoseA and the even ones at PoseB, and the scales drawn are ScaleA for the odd
\* samples and ScaleB for the even ones.
C33_ScalePairedWithCandidate ==
    [][(last'.op = "generate_group_particles_on_object" /\ last'.err = "none")
       => \A i \in DOMAIN particles' :
              particles'[i] \notin Range(particles)
              => particles'[i].scale =
                     Mul3(particle_object[1].scale,
                          IF particles'[i].pose = PoseA THEN ScaleA ELSE ScaleB)]_vars

\* C34: after a load_state of a serialized state that raised nothing and for which
\* the synchronization created a group, or created one again, every particle of the
\* saved system is tracked under its name with the pose and the scale it had in the
\* saved system.
C34_PosesFollowIdentifiers ==
    [][(/\ last'.op = "load_state" /\ last'.err = "none"
        /\ \E g \in groups(LoadedFrom) :
               \/ g \notin groups(St)
               \/ Len(Parts(St, g)) # Len(Parts(LoadedFrom, g)))
       => \A i \in DOMAIN LoadedFrom.particles :
              LET p == LoadedFrom.particles[i]
              IN  /\ p.name \in DictKeys(particles')
                  /\ DictGet(particles', p.name).pose = p.pose
                  /\ DictGet(particles', p.name).scale = p.scale]_vars

\* C35: a call of _sync_particle_groups in a system whose particles are all in groups
\* raises nothing when the desired groups are those of a system the calls can build
\* and every host is in the scene. Of
\* DesiredGroups these are the entries 1, 2, 3, 5 and 7: no group; chair1 with the
\* one particle 1 or 2, made after particles in no group that were then removed;
\* chair1 with particle 0 and table1 with particle 1; table1 with particles 0 and 1
\* beside an empty chair1.
C35_SyncCompletes ==
    [][(/\ last'.op = "_sync_particle_groups" /\ last'.n \in {1, 2, 3, 5, 7}
        /\ DictKeys(particles) = GroupedNames(_group_particles))
       => last'.err = "none"]_vars

\* a generate_group_particles on group g raised nothing and appended, to the tracked
\* particles and to the particles of g, one new particle for each entry of made, under
\* the identifiers after max_particle_idn, at the pose, scale and link of the entry
GeneratedAfter(g, made) ==
    /\ last'.err = "none"
    /\ Len(particles') = Len(particles) + Len(made)
    /\ SubSeq(particles', 1, Len(particles)) = particles
    /\ \A i \in DOMAIN made :
           LET new == particles'[Len(particles) + i]
           IN  /\ new.name = particle_idn2name(max_particle_idn.v + i)
               /\ new.name \notin DictKeys(particles)
               /\ new.pose = made[i].pose
               /\ new.scale = Mul3(particle_object[1].scale, made[i].scale)
               /\ new.prim_path = Append(made[i].link, new.name)
    /\ Parts(St', g) = Parts(St, g) \o [i \in DOMAIN made |->
                                           particle_idn2name(max_particle_idn.v + i)]
    /\ \A h \in groups(St) \ {g} : Parts(St', h) = Parts(St, h)

\* C36: generate_group_particles on an existing group with P positions raises nothing
\* and appends P new particles, under newly allocated identifiers, to the tracked
\* particles and to the group, whose particles stay; with orientations, scales and
\* links given they are the given ones, and with them omitted the orientation is
\* (0, 0, 0, 1), the link is the root link of the host and the scales are those
\* sample_scales drew.
C36_GenerateAppends ==
    [][last'.op = "generate_group_particles"
       => \A g \in DictKeys(_group_particles), n \in 1..MaxRequest :
              \A draws \in ScaleDraws(n) :
                  /\ GenerateGroupParticles(g, [i \in 1..n |-> Hit(HostOf(g), i)], draws)
                     => GeneratedAfter(g, [i \in 1..n |->
                            [pose |-> <<Hit(HostOf(g), i).position[1],
                                        Hit(HostOf(g), i).quaternion>>,
                             scale |-> draws[i],
                             link |-> Hit(HostOf(g), i).hit_link]])
                  /\ GenerateGroupParticlesDefault(g, [i \in 1..n |-> PoseA[1]], draws)
                     => GeneratedAfter(g, [i \in 1..n |->
                            [pose |-> <<PoseA[1], <<0, 0, 0, 1>>>>,
                             scale |-> draws[i],
                             link |-> RootLinkPath(HostOf(g))]])]_vars

\* C37: remove_all_group_particles on an existing group raises nothing; the group
\* stays, with no particle and with its host; the tracked particles are those that
\* were not in the group, as they were and in their order; every other group holds
\* what it held; max_particle_idn and the template are unchanged.
C37_RemoveAllGroupParticles ==
    [][last'.op = "remove_all_group_particles"
       => \A g \in groups(St) :
              RemoveAllGroupParticles(g)
              => /\ last'.err = "none"
                 /\ _group_particles' = DictSet(_group_particles, [name |-> g, parts |-> <<>>])
                 /\ _group_objects' = _group_objects
                 /\ particles' = SelectSeq(particles, LAMBDA p : p.name \notin Range(Parts(St, g)))
                 /\ max_particle_idn' = max_particle_idn
                 /\ particle_object' = particle_object]_vars

\* C37 witness: the particles of one group were removed while the other group holds
\* a particle, which is the one still tracked, and the emptied group is still there.
C37_Witness ==
    /\ last.op = "remove_all_group_particles" /\ last.err = "none"
    /\ Len(_group_particles) = 2
    /\ \E g, h \in DOMAIN _group_particles :
           /\ _group_particles[g].parts = <<>>
           /\ Len(_group_particles[h].parts) = 1
    /\ Len(particles) = 1
    /\ max_particle_idn.v = 1

\* C38: the bounds stain_update_particle_scaling returns for a host are the 0.06 and
\* the 0.1 of the median dimension of its bounding box, clamped to [0.01, 0.02] and
\* [0.02, 0.1], each divided by the x and the y extent of the template; so on every
\* axis the minimum is at most the maximum, the x and y bounds are within their clamp
\* range divided by the template extent, and both z bounds are 1.
C38_StainBounds ==
    [][(last'.op = "stain_update_particle_scaling" /\ last'.err = "none")
       => LET minimum == sampled'[1]
              maximum == sampled'[2]
              median == last'.n
              lower == IF 6 * median <= 100 * 1000 THEN 1000
                       ELSE IF 6 * median >= 100 * 2000 THEN 2000
                       ELSE (6 * median) \div 100
              upper == IF 10 * median <= 100 * 2000 THEN 2000
                       ELSE IF 10 * median >= 100 * 10000 THEN 10000
                       ELSE (10 * median) \div 100
          IN  /\ \A k \in 1..2 :
                     /\ minimum[k] = Div(lower, StainExtent[k])
                     /\ maximum[k] = Div(upper, StainExtent[k])
                     /\ Leq(Div(1000, StainExtent[k]), minimum[k])
                     /\ Leq(minimum[k], Div(2000, StainExtent[k]))
                     /\ Leq(Div(2000, StainExtent[k]), maximum[k])
                     /\ Leq(maximum[k], Div(10000, StainExtent[k]))
              /\ \A k \in 1..3 : Leq(minimum[k], maximum[k])
              /\ minimum[3] = Div(1, 1) /\ maximum[3] = Div(1, 1)]_vars

\* C38 witness: the bounds were returned for a host of median dimension 0.25, where
\* neither clamp acts: the lower limit is 0.015 and the upper limit 0.025.
C38_Witness ==
    /\ last.op = "stain_update_particle_scaling" /\ last.err = "none" /\ last.n = 25000
    /\ sampled[1][1] = Div(1500, StainExtent[1])
    /\ sampled[2][2] = Div(2500, StainExtent[2])

\* C39: a call of Under._set_value returns; it has made at most 10 attempts and
\* stopped at the first that sampled a pose with the value; it returns TRUE iff an
\* attempt succeeded; when none did the physics state is the one at entry; and the
\* snapshot it took is removed, so the engine holds the snapshots it held before.
C39_SetValueAttempts ==
    [][last'.op = "_set_value"
       => \A new_value \in BOOLEAN, plan \in AttemptPlans :
              SetValue(new_value, plan)
              => /\ last'.err = "none"
                 /\ last'.n = Min(plan.failures + 1, MaxAttempts)
                 /\ last'.ret = (plan.failures < MaxAttempts)
                 /\ last'.ret = TRUE => _get_value(physics') = new_value
                 /\ last'.ret = FALSE => physics' = physics
                 /\ saved_states' = saved_states]_vars

====
